---- MODULE Spec2Model ----
(***************************************************************************)
(* Delve Dungeon rules engine: the run state machine of the action         *)
(* processor (startRun / processAction / abandonRun), the procedural floor *)
(* generator with clearRoom / unlockRoom, and the dice, combat and         *)
(* persistence calls they make.                                            *)
(***************************************************************************)
EXTENDS Integers, Sequences, FiniteSets, TLC

(***************************************************************************)
(* Small helpers                                                           *)
(***************************************************************************)
Max2(a, b) == IF a >= b THEN a ELSE b

Min2(a, b) == IF a <= b THEN a ELSE b

SeqToSet(s) == { s[i] : i \in 1..Len(s) }

Contains(s, x) == \E i \in 1..Len(s) : s[i] = x

\* Array.prototype.filter on a sequence of room numbers
RECURSIVE FilterSeq(_, _)
FilterSeq(s, keep) ==
  IF s = <<>> THEN <<>>
  ELSE IF Head(s) \in keep THEN <<Head(s)>> \o FilterSeq(Tail(s), keep)
       ELSE FilterSeq(Tail(s), keep)

\* floor division that follows Math.floor for negative numerators
FloorDiv(a, b) == IF a >= 0 THEN a \div b ELSE -(((-a) + b - 1) \div b)

(***************************************************************************)
(* Bounds of the model                                                     *)
(***************************************************************************)
\* applications of clearRoom / unlockRoom on one generated floor (SpecFloor)
MaxOps == 2

\* Spec / SpecAsync: runs started, and calls of startRun / processAction /
\* abandonRun made, in one behaviour
MaxRuns == 2

MaxCalls == 3

\* Spec / SpecAsync: persistence calls that throw in one behaviour
MaxFailures == 2

(***************************************************************************)
(* Declarative content: dungeon, enemy spawn rules                         *)
(***************************************************************************)
\* dungeons rows (the seed's dungeon has 3 floors; the model's have 1 and 2)
Dungeons ==
  << [id |-> 1, floor_count |-> 1, entry_cost |-> 10, difficulty_tier |-> 1,
      dc_range |-> [min |-> 10, max |-> 10], completion |-> "boss_killed"],
     [id |-> 2, floor_count |-> 2, entry_cost |-> 10, difficulty_tier |-> 1,
      dc_range |-> [min |-> 10, max |-> 10], completion |-> "boss_killed"] >>

\* an ability without effect_chance / effect_value
NoEffect == [present |-> FALSE, status |-> "none", duration_actions |-> 0]

\* enemy_rules joined with enemies: one regular enemy and the boss; effect is
\* the effect_value of the enemy's one ability
EnemyRules ==
  << [enemy_id |-> 1, enemy_name |-> "Crypt Rat", base_hp |-> 6, base_damage |-> 4,
      base_armor |-> 0, is_boss |-> 0, spawn_weight |-> 40, xp_reward |-> 8,
      gold_reward_min |-> 1, gold_reward_max |-> 1, base_dc |-> 8, effect |-> NoEffect],
     [enemy_id |-> 2, enemy_name |-> "The Hollow Warden", base_hp |-> 8, base_damage |-> 5,
      base_armor |-> 2, is_boss |-> 1, spawn_weight |-> 0, xp_reward |-> 75,
      gold_reward_min |-> 25, gold_reward_max |-> 25, base_dc |-> 12, effect |-> NoEffect] >>

\* dice.js randomDC: min + floor(random * (max - min + 1))
randomDC(lo, hi) == { lo + k : k \in 0..(hi - lo) }

(***************************************************************************)
(* Floor generator (src/src/engine/floor-generator.js)                     *)
(***************************************************************************)
ROOM_TYPES == <<"standard", "treasure", "trap", "rest", "locked">>

\* a boss room generated as a locked room
BossRoomTypeLocked == "locked"

BOSS_ROOM_TYPE == "boss"

NoTrap == [present |-> FALSE, damage |-> 0, dc |-> 0,
           is_triggered |-> FALSE, is_disarmed |-> FALSE]

NoChest == [present |-> FALSE, is_opened |-> FALSE, is_locked |-> FALSE,
            lock_dc |-> 0, is_looted |-> FALSE]

NoLock == [present |-> FALSE, lock_dc |-> 0, is_picked |-> FALSE]

\* damage of the five trap definitions, in source order
TrapDamages == <<8, 12, 10, 15, 6>>

\* dice.js roll(sides): 1..sides
roll(sides) == 1..sides

\* pickRoomType: the weighted table, re-weighted on deeper floors
RoomTypePool(floorNumber) ==
  IF floorNumber >= 2
  THEN << [weight |-> 35, item |-> "standard"], [weight |-> 15, item |-> "treasure"],
          [weight |-> 20, item |-> "trap"], [weight |-> 10, item |-> "rest"],
          [weight |-> 15, item |-> "locked"] >>
  ELSE << [weight |-> 45, item |-> "standard"], [weight |-> 15, item |-> "treasure"],
          [weight |-> 15, item |-> "trap"], [weight |-> 10, item |-> "rest"],
          [weight |-> 10, item |-> "locked"] >>

\* dice.js weightedRandom: every entry of positive weight can be drawn
weightedRandom(pool) ==
  { pool[i].item : i \in { j \in 1..Len(pool) : pool[j].weight > 0 } }

pickRoomType(floorNumber) == weightedRandom(RoomTypePool(floorNumber))

\* createEnemyInstance: difficulty tier 1 leaves the base stats unscaled
\* (Math.pow(factor, 0) = 1)
createEnemyInstance(rule, difficultyTier, isBoss) ==
  [enemy_id |-> rule.enemy_id, name |-> rule.enemy_name,
   hp_current |-> rule.base_hp, hp_max |-> rule.base_hp,
   damage |-> rule.base_damage, armor |-> rule.base_armor,
   base_dc |-> rule.base_dc, effect |-> rule.effect,
   is_boss |-> IF isBoss THEN 1 ELSE 0, is_dead |-> FALSE,
   xp_reward |-> rule.xp_reward,
   gold_reward_min |-> rule.gold_reward_min, gold_reward_max |-> rule.gold_reward_max]

\* sequences of n instances drawn by spawn weight from the rules
RECURSIVE WeightedEnemies(_, _, _)
WeightedEnemies(rules, tier, n) ==
  IF n = 0 THEN { <<>> }
  ELSE { <<createEnemyInstance(r, tier, FALSE)>> \o rest :
           r \in weightedRandom([i \in 1..Len(rules) |->
                                  [weight |-> rules[i].spawn_weight, item |-> rules[i]]]),
           rest \in WeightedEnemies(rules, tier, n - 1) }

RegularRules(enemyRules) ==
  FilterSeq(enemyRules, { r \in SeqToSet(enemyRules) : r.is_boss = 0 /\ r.spawn_weight > 0 })

BossRules(enemyRules) ==
  FilterSeq(enemyRules, { r \in SeqToSet(enemyRules) : r.is_boss = 1 })

\* spawnEnemies; rnd.bossAdds holds the drawn numbers of adds (0: the 50% draw
\* failed), rnd.enemyCount the drawn values of floor(random * min(2, floor))
spawnEnemies(enemyRules, floorNumber, difficultyTier, isBossRoom, rnd) ==
  IF isBossRoom
  THEN LET boss == IF Len(BossRules(enemyRules)) > 0
                   THEN <<createEnemyInstance(BossRules(enemyRules)[1], difficultyTier, TRUE)>>
                   ELSE <<>>
           regular == RegularRules(enemyRules)
       IN  { boss \o adds :
               adds \in UNION { IF Len(regular) = 0 THEN { <<>> }
                                ELSE WeightedEnemies(regular, difficultyTier, k) :
                                k \in rnd.bossAdds \cap (0..2) } }
  ELSE LET regular == RegularRules(enemyRules)
       IN  IF Len(regular) = 0 THEN { <<>> }
           ELSE UNION { WeightedEnemies(regular, difficultyTier, 1 + k) :
                        k \in rnd.enemyCount \cap (0..(Min2(2, floorNumber) - 1)) }

\* generateTrap
generateTrap(dcRange, rnd) ==
  { [present |-> TRUE, damage |-> TrapDamages[i], dc |-> dc,
     is_triggered |-> FALSE, is_disarmed |-> FALSE] :
    i \in rnd.trapIdx \cap (1..Len(TrapDamages)), dc \in randomDC(dcRange.min, dcRange.max) }

\* createRoom: the set of rooms the random draws allowed by rnd can produce
createRoom(room_number, type, dungeon, floorNumber, enemyRules, isEntrance, isBossRoom, isExit, rnd) ==
  LET dcRange == dungeon.dc_range
      tier == dungeon.difficulty_tier
      enemySets ==
        IF type = "standard" /\ ~isEntrance
        THEN UNION { IF hit THEN spawnEnemies(enemyRules, floorNumber, tier, FALSE, rnd)
                     ELSE { <<>> } : hit \in rnd.enemyChance }
        ELSE IF type = "trap"
        THEN UNION { IF hit THEN spawnEnemies(enemyRules, floorNumber, tier, FALSE, rnd)
                     ELSE { <<>> } : hit \in rnd.trapEnemyChance }
        ELSE IF type = BOSS_ROOM_TYPE
        THEN spawnEnemies(enemyRules, floorNumber, tier, TRUE, rnd)
        ELSE { <<>> }
      trapSet == IF type = "trap" THEN generateTrap(dcRange, rnd) ELSE { NoTrap }
      chestSet ==
        IF type = "treasure"
        THEN UNION { IF locked
                     THEN { [present |-> TRUE, is_opened |-> FALSE, is_locked |-> TRUE,
                             lock_dc |-> dc, is_looted |-> FALSE] :
                            dc \in randomDC(dcRange.min, dcRange.max) }
                     ELSE { [present |-> TRUE, is_opened |-> FALSE, is_locked |-> FALSE,
                             lock_dc |-> 0, is_looted |-> FALSE] } :
                     locked \in rnd.chestLocked }
        ELSE IF type = "standard" /\ ~isEntrance
        THEN { IF hit THEN [present |-> TRUE, is_opened |-> FALSE, is_locked |-> FALSE,
                            lock_dc |-> 0, is_looted |-> FALSE]
               ELSE NoChest : hit \in rnd.chestChance }
        ELSE { NoChest }
      lockSet ==
        IF type = "locked"
        THEN { [present |-> TRUE, lock_dc |-> dc, is_picked |-> FALSE] :
               dc \in randomDC(dcRange.min + 2, dcRange.max + 2) }
        ELSE { NoLock }
      \* rest.heal_percent (0.2 + random * 0.15), in hundredths
      healSet == IF type = "rest" THEN rnd.restHeal \cap (20..34) ELSE { 0 }
  IN  { [room_number |-> room_number, type |-> type, is_cleared |-> FALSE,
         is_accessible |-> IF type = "locked" THEN FALSE ELSE room_number = 1,
         connections |-> <<>>, enemies |-> e, trap |-> t, chest |-> c, lock |-> l,
         rest_heal |-> h, is_exit |-> isExit, is_boss_room |-> isBossRoom,
         search_count |-> 0] :
        e \in enemySets, t \in trapSet, c \in chestSet, l \in lockSet, h \in healSet }

\* a linear path recorded in the forward direction only
LinearConnectionsOneWay(rooms) ==
  [k \in 1..Len(rooms) |->
     [rooms[k] EXCEPT
        !.connections = IF k < Len(rooms) THEN <<rooms[k + 1].room_number>> ELSE <<>>,
        !.is_accessible = IF k = 1 THEN TRUE
                          ELSE IF rooms[k].type # "locked" THEN FALSE
                          ELSE rooms[k].is_accessible]]

\* generateConnections, first loop: the linear path 1 - 2 - ... - N
LinearConnections(rooms) ==
  [k \in 1..Len(rooms) |->
     [rooms[k] EXCEPT
        !.connections = (IF k > 1 THEN <<rooms[k - 1].room_number>> ELSE <<>>)
                        \o (IF k < Len(rooms) THEN <<rooms[k + 1].room_number>> ELSE <<>>),
        !.is_accessible = IF k = 1 THEN TRUE
                          ELSE IF rooms[k].type # "locked" THEN FALSE
                          ELSE rooms[k].is_accessible]]

\* the targets (array indices from 0) a branch from array index i can draw:
\* i + 2 + floor(random * min(2, length - i - 2))
BranchTargets(i, length) == { i + 2 + k : k \in 0..(Min2(2, length - i - 2) - 1) }

\* generateConnections, second loop from array index i on; b[i] is the drawn
\* target index of room index i, or 0 when its 20% draw failed
RECURSIVE ApplyBranches(_, _, _)
ApplyBranches(rooms, i, b) ==
  IF i >= Len(rooms) - 2 THEN rooms
  ELSE IF b[i] = 0 \/ b[i] >= Len(rooms) THEN ApplyBranches(rooms, i + 1, b)
  ELSE LET from == i + 1
           to == b[i] + 1
           linked == [rooms EXCEPT
                        ![from].connections = Append(@, rooms[to].room_number),
                        ![to].connections = Append(@, rooms[from].room_number)]
       IN  ApplyBranches(linked, i + 1, b)

BranchDraws(length, rnd) ==
  { b \in [1..Max2(0, length - 3) -> 0..(length - 1)] :
      \A i \in DOMAIN b : (b[i] = 0 /\ FALSE \in rnd.branch)
                           \/ (b[i] \in BranchTargets(i, length) /\ TRUE \in rnd.branch) }

generateConnections(rooms, b) == ApplyBranches(LinearConnections(rooms), 1, b)

\* the middle rooms i .. roomCount - 1 of generateFloor
RECURSIVE MiddleRooms(_, _, _, _, _, _)
MiddleRooms(i, roomCount, dungeon, floorNumber, enemyRules, rnd) ==
  IF i >= roomCount THEN { <<>> }
  ELSE { <<r>> \o rest :
           r \in UNION { createRoom(i, IF i = 2 /\ ty = "locked" THEN "standard" ELSE ty,
                                    dungeon, floorNumber, enemyRules, FALSE, FALSE, FALSE, rnd) :
                         ty \in pickRoomType(floorNumber) \cap rnd.types },
           rest \in MiddleRooms(i + 1, roomCount, dungeon, floorNumber, enemyRules, rnd) }

\* a room count spread evenly around the base count
roomCountAroundBase(floorNumber, r3) == 4 + (floorNumber \div 2) + r3 - 2

\* generateFloor, lines 30-31: baseRoomCount + roll(3) - 1, r3 the value of roll(3)
roomCountOf(floorNumber, r3) == 4 + (floorNumber \div 2) + r3 - 1

\* generateFloor: every floor map ({rooms}) the generator can return under rnd
generateFloor(dungeon, floorNumber, isFinalFloor, enemyRules, rnd) ==
  UNION {
    LET roomCount == roomCountOf(floorNumber, r3)
        first == createRoom(1, "standard", dungeon, floorNumber, enemyRules, TRUE, FALSE, FALSE, rnd)
        last == IF isFinalFloor
                THEN createRoom(roomCount, BOSS_ROOM_TYPE, dungeon, floorNumber, enemyRules,
                                FALSE, TRUE, FALSE, rnd)
                ELSE createRoom(roomCount, "standard", dungeon, floorNumber, enemyRules,
                                FALSE, FALSE, TRUE, rnd)
    IN  { generateConnections(<<f>> \o mid \o <<l>>, b) :
            f \in first,
            mid \in MiddleRooms(2, roomCount, dungeon, floorNumber, enemyRules, rnd),
            l \in last,
            b \in BranchDraws(roomCount, rnd) }
    : r3 \in roll(3) \cap rnd.roll3 }

\* getCurrentRoom: the index of the room with that number, 0 for null
getCurrentRoom(floorMap, roomNumber) ==
  IF \E k \in 1..Len(floorMap) : floorMap[k].room_number = roomNumber
  THEN CHOOSE k \in 1..Len(floorMap) :
         /\ floorMap[k].room_number = roomNumber
         /\ \A j \in 1..(k - 1) : floorMap[j].room_number # roomNumber
  ELSE 0

\* clearRoom without the test on the connected room's type
RECURSIVE NewlyAccessibleAnyType(_, _, _)
NewlyAccessibleAnyType(floorMap, conns, acc) ==
  IF conns = <<>> THEN acc
  ELSE LET k == IF \E j \in 1..Len(floorMap) : floorMap[j].room_number = Head(conns)
                THEN CHOOSE j \in 1..Len(floorMap) : floorMap[j].room_number = Head(conns)
                ELSE 0
       IN  IF k # 0 /\ ~floorMap[k].is_accessible /\ ~Contains(acc, Head(conns))
           THEN NewlyAccessibleAnyType(floorMap, Tail(conns), Append(acc, Head(conns)))
           ELSE NewlyAccessibleAnyType(floorMap, Tail(conns), acc)

\* the connected rooms clearRoom makes accessible, in connection order
RECURSIVE NewlyAccessible(_, _, _)
NewlyAccessible(floorMap, conns, acc) ==
  IF conns = <<>> THEN acc
  ELSE LET k == getCurrentRoom(floorMap, Head(conns))
       IN  IF k # 0 /\ ~floorMap[k].is_accessible /\ floorMap[k].type # "locked"
              /\ ~Contains(acc, Head(conns))
           THEN NewlyAccessible(floorMap, Tail(conns), Append(acc, Head(conns)))
           ELSE NewlyAccessible(floorMap, Tail(conns), acc)

\* clearRoom opening every connected room, locked ones included
clearRoomAnyType(floorMap, roomNumber) ==
  LET k == getCurrentRoom(floorMap, roomNumber)
  IN  IF k = 0 THEN [map |-> floorMap, ret |-> <<>>]
      ELSE LET newly == NewlyAccessibleAnyType(floorMap, floorMap[k].connections, <<>>)
           IN  [map |-> [j \in 1..Len(floorMap) |->
                           IF j = k THEN [floorMap[j] EXCEPT !.is_cleared = TRUE]
                           ELSE IF Contains(newly, floorMap[j].room_number)
                                THEN [floorMap[j] EXCEPT !.is_accessible = TRUE]
                                ELSE floorMap[j]],
                ret |-> newly]

\* clearRoom: [map, ret] - the floor map after the call and the returned list
clearRoom(floorMap, roomNumber) ==
  LET k == getCurrentRoom(floorMap, roomNumber)
  IN  IF k = 0 THEN [map |-> floorMap, ret |-> <<>>]
      ELSE LET newly == NewlyAccessible(floorMap, floorMap[k].connections, <<>>)
           IN  [map |-> [j \in 1..Len(floorMap) |->
                           IF j = k THEN [floorMap[j] EXCEPT !.is_cleared = TRUE]
                           ELSE IF Contains(newly, floorMap[j].room_number)
                                THEN [floorMap[j] EXCEPT !.is_accessible = TRUE]
                                ELSE floorMap[j]],
                ret |-> newly]

\* unlockRoom
unlockRoom(floorMap, roomNumber) ==
  LET k == getCurrentRoom(floorMap, roomNumber)
  IN  IF k = 0 THEN floorMap
      ELSE [floorMap EXCEPT ![k].is_accessible = TRUE,
                            ![k].lock = IF @.present THEN [@ EXCEPT !.is_picked = TRUE] ELSE @]


(***************************************************************************)
(* Random outcomes enumerated by each specification                        *)
(***************************************************************************)
\* SpecFloor: every room count, every branch, locked and unlocked room types;
\* one outcome for each draw that decides room contents only
RndGraph ==
  [roll3 |-> 1..3, types |-> {"standard", "trap", "locked"}, branch |-> BOOLEAN,
   enemyChance |-> {FALSE}, trapEnemyChance |-> {FALSE}, enemyCount |-> {0},
   bossAdds |-> {0}, trapIdx |-> {1}, chestChance |-> {FALSE}, chestLocked |-> {FALSE},
   restHeal |-> {20}]

\* Spec / SpecAsync: the smallest room count, a branch wherever one can be
\* drawn, an enemy in every standard room, the room types that decide how a
\* run can proceed
RndRun ==
  [roll3 |-> {1}, types |-> {"standard", "trap", "locked"}, branch |-> {TRUE},
   enemyChance |-> {TRUE}, trapEnemyChance |-> {FALSE}, enemyCount |-> {0},
   bossAdds |-> {0}, trapIdx |-> {1}, chestChance |-> {FALSE}, chestLocked |-> {FALSE},
   restHeal |-> {20}]

(***************************************************************************)
(* State                                                                   *)
(***************************************************************************)
VARIABLES
  fmap,      \* SpecFloor: the floor map clearRoom / unlockRoom are applied to
  lastOp,    \* SpecFloor: the last call, its argument, its return value and
             \* the floor map it was applied to
  opCount,   \* SpecFloor: calls applied so far
  player,    \* players row: hp_current, hp_max, gold
  inv,       \* player_inventory: quantity of Thieves' Pick; rows acquired in each run
  xp,        \* player_skills: xp per skill
  runs,      \* active_runs rows, indexed by run id
  floorMaps, \* run_floor_maps: floorMaps[run][floor]
  tasks,     \* the processAction calls in flight: position and locals
  lastCall,  \* the call or continuation that made the last step, and how it ended
  calls,     \* calls made so far
  passed,    \* lockpicking checks passed: <<run, floor, room>> of the lock
  failures   \* persistence calls that have thrown so far

floorVars == <<fmap, lastOp, opCount>>

\* what the database holds
dbVars == <<player, inv, xp, runs, floorMaps>>

runVars == <<player, inv, xp, runs, floorMaps, tasks, lastCall, calls, passed, failures>>

vars == <<fmap, lastOp, opCount, player, inv, xp, runs, floorMaps, tasks, lastCall, calls,
          passed, failures>>

\* the callers that can be inside processAction at the same time
Tasks == {1, 2}

IdleTask == [pc |-> "idle"]

\* the characters a behaviour can start with: wounded or not, with or without
\* a Thieves' Pick, with or without the gold for the entry cost
InitCharacters ==
  { [hp_current |-> 4, hp_max |-> 10, gold |-> 25, picks |-> 1],
    [hp_current |-> 10, hp_max |-> 10, gold |-> 25, picks |-> 1],
    [hp_current |-> 10, hp_max |-> 10, gold |-> 25, picks |-> 0],
    [hp_current |-> 10, hp_max |-> 10, gold |-> 5, picks |-> 0] }

InitRunVars ==
  /\ \E c \in InitCharacters :
       /\ player = [hp_current |-> c.hp_current, hp_max |-> c.hp_max, gold |-> c.gold]
       /\ inv = [picks |-> c.picks, antidotes |-> 0, potions |-> 0, loot |-> [r \in 1..MaxRuns |-> 0]]
  /\ xp = [lockpicking |-> 0, perception |-> 0, stealth |-> 0, melee |-> 0]
  /\ runs = <<>>
  /\ floorMaps = <<>>
  /\ tasks = [t \in Tasks |-> IdleTask]
  /\ lastCall = [op |-> "init", outcome |-> "ok", task |-> 0, arg |-> 0]
  /\ calls = 0
  /\ passed = {}
  /\ failures = 0

(***************************************************************************)
(* SpecFloor: generateFloor, then clearRoom / unlockRoom as called by       *)
(* processMove and processSkillCheck                                        *)
(***************************************************************************)
InitFloor ==
  /\ \E d \in 1..Len(Dungeons), isFinalFloor \in BOOLEAN :
       /\ fmap \in generateFloor(Dungeons[d], 1, isFinalFloor, EnemyRules, RndGraph)
       /\ lastOp = [name |-> "generateFloor", room |-> 0, ret |-> <<>>, before |-> <<>>,
                    final |-> isFinalFloor]
  /\ opCount = 0
  /\ player = [hp_current |-> 10, hp_max |-> 10, gold |-> 0]
  /\ inv = [picks |-> 0, antidotes |-> 0, potions |-> 0, loot |-> [r \in 1..MaxRuns |-> 0]]
  /\ xp = [lockpicking |-> 0, perception |-> 0, stealth |-> 0, melee |-> 0]
  /\ runs = <<>>
  /\ floorMaps = <<>>
  /\ tasks = [t \in Tasks |-> IdleTask]
  /\ lastCall = [op |-> "init", outcome |-> "ok", task |-> 0, arg |-> 0]
  /\ calls = 0
  /\ passed = {}
  /\ failures = 0

\* clearRoom(floorMap, n); n may name no room
ClearRoomOp ==
  \E n \in 1..(Len(fmap) + 1) :
    /\ opCount < MaxOps
    /\ fmap' = clearRoom(fmap, n).map
    /\ lastOp' = [name |-> "clearRoom", room |-> n, ret |-> clearRoom(fmap, n).ret,
                  before |-> fmap, final |-> lastOp.final]
    /\ opCount' = opCount + 1
    /\ UNCHANGED runVars

\* unlockRoom(floorMap, n), called for rooms of type locked that carry a lock
UnlockRoomOp ==
  \E n \in 1..Len(fmap) :
    /\ opCount < MaxOps
    /\ fmap[n].type = "locked" /\ fmap[n].lock.present
    /\ fmap' = unlockRoom(fmap, n)
    /\ lastOp' = [name |-> "unlockRoom", room |-> n, ret |-> <<>>, before |-> fmap,
                  final |-> lastOp.final]
    /\ opCount' = opCount + 1
    /\ UNCHANGED runVars

NextFloor == ClearRoomOp \/ UnlockRoomOp

SpecFloor == InitFloor /\ [][NextFloor]_vars

(***************************************************************************)
(* Properties of the floor generator and of clearRoom                      *)
(***************************************************************************)
RoomNumbers(floorMap) == { floorMap[k].room_number : k \in 1..Len(floorMap) }

RoomByNumber(floorMap, n) == CHOOSE k \in 1..Len(floorMap) : floorMap[k].room_number = n

\* room numbers reachable from the set S along recorded connections
RECURSIVE ReachableFrom(_, _)
ReachableFrom(floorMap, S) ==
  LET next == S \cup { c \in RoomNumbers(floorMap) :
                         \E k \in 1..Len(floorMap) :
                           floorMap[k].room_number \in S /\ Contains(floorMap[k].connections, c) }
  IN  IF next = S THEN S ELSE ReachableFrom(floorMap, next)

\* C8: on every generated floor room 1 is accessible and no other room is,
\* every connection is recorded in both directions, and every room is
\* reachable from room 1 along connections.
C8_GeneratedFloorGraph ==
  lastOp.name = "generateFloor" =>
    /\ 1 \in RoomNumbers(fmap)
    /\ \A k \in 1..Len(fmap) : fmap[k].is_accessible <=> (fmap[k].room_number = 1)
    /\ \A k \in 1..Len(fmap) : \A c \in SeqToSet(fmap[k].connections) :
          /\ c \in RoomNumbers(fmap)
          /\ Contains(fmap[RoomByNumber(fmap, c)].connections, fmap[k].room_number)
    /\ ReachableFrom(fmap, {1}) = RoomNumbers(fmap)

\* a generated floor with a locked room and a branch connection
C8_Witness ==
  /\ lastOp.name = "generateFloor"
  /\ \E k \in 1..Len(fmap) : fmap[k].type = "locked"
  /\ \E k \in 1..Len(fmap) : Len(fmap[k].connections) >= 3

\* the highest room number of a floor map
LastRoomNumber(floorMap) ==
  CHOOSE n \in RoomNumbers(floorMap) : \A m \in RoomNumbers(floorMap) : m <= n

\* the room numbers of the boss rooms and of the exit rooms of a floor map
BossRooms(floorMap) ==
  { floorMap[k].room_number : k \in { j \in 1..Len(floorMap) :
      floorMap[j].is_boss_room \/ floorMap[j].type = "boss" } }

ExitRooms(floorMap) ==
  { floorMap[k].room_number : k \in { j \in 1..Len(floorMap) : floorMap[j].is_exit } }

\* C11: on a final floor exactly one room is the boss room and it is the
\* highest-numbered room; on a non-final floor no room is a boss room and exactly
\* one room, the highest-numbered one, is the exit; the last room is never locked.
C11_BossAndExitRooms ==
  LET last == LastRoomNumber(fmap)
  IN  /\ lastOp.final => BossRooms(fmap) = {last}
      /\ ~lastOp.final => (BossRooms(fmap) = {} /\ ExitRooms(fmap) = {last})
      /\ fmap[RoomByNumber(fmap, last)].type # "locked"
      /\ fmap[RoomByNumber(fmap, last)].is_boss_room
            <=> fmap[RoomByNumber(fmap, last)].type = "boss"

\* a final floor of six rooms whose boss room follows a locked room
C11_Witness ==
  /\ lastOp.name = "generateFloor"
  /\ lastOp.final
  /\ Len(fmap) = 6
  /\ fmap[6].is_boss_room
  /\ fmap[5].type = "locked"

\* the rooms clearRoom(N) has to make accessible on the floor map b
ExpectedNewlyAccessible(b, n) ==
  { c \in SeqToSet(b[RoomByNumber(b, n)].connections) :
      /\ c \in RoomNumbers(b)
      /\ b[RoomByNumber(b, c)].type # "locked"
      /\ ~b[RoomByNumber(b, c)].is_accessible }

\* C10: clearRoom(N) marks N cleared, makes accessible exactly the rooms
\* directly connected to N that are not of type locked and not yet
\* accessible, returns exactly those room numbers, and leaves the
\* accessibility and cleared flags of every other room unchanged.
C10_ClearRoomFrame ==
  (lastOp.name = "clearRoom" /\ lastOp.room \in RoomNumbers(lastOp.before)) =>
    LET b == lastOp.before
        n == lastOp.room
        E == ExpectedNewlyAccessible(b, n)
    IN  /\ Len(fmap) = Len(b)
        /\ SeqToSet(lastOp.ret) = E
        /\ Len(lastOp.ret) = Cardinality(E)
        /\ \A k \in 1..Len(b) :
              /\ fmap[k].is_cleared = (b[k].is_cleared \/ b[k].room_number = n)
              /\ fmap[k].is_accessible = (b[k].is_accessible \/ b[k].room_number \in E)
              /\ [fmap[k] EXCEPT !.is_cleared = b[k].is_cleared,
                                 !.is_accessible = b[k].is_accessible] = b[k]

\* clearRoom on a room with a locked neighbour, an accessible one and one
\* that the call makes accessible
C10_Witness ==
  /\ lastOp.name = "clearRoom"
  /\ lastOp.room \in RoomNumbers(lastOp.before)
  /\ lastOp.ret # <<>>
  /\ LET b == lastOp.before
          conns == SeqToSet(b[RoomByNumber(b, lastOp.room)].connections)
     IN  /\ \E c \in conns : b[RoomByNumber(b, c)].type = "locked"
                              /\ ~fmap[RoomByNumber(fmap, c)].is_accessible
         /\ \E c \in conns : b[RoomByNumber(b, c)].is_accessible

(***************************************************************************)
(* Run lifecycle: startRun, abandonRun                                      *)
(***************************************************************************)
\* a query that overlooks the runs whose status is processing
getActiveRunActiveOnly(rs) == { r \in 1..Len(rs) : rs[r].status = "active" }

\* queries.getActiveRun: the ids of the rows the query can return
getActiveRun(rs) == { r \in 1..Len(rs) : rs[r].status \in {"active", "processing"} }

\* buildRoomState(room)
buildRoomState(room) == [is_combat_active |-> FALSE, enemies |-> room.enemies]

\* queries.createRun: the inserted row
createRun(dungeonId) ==
  [status |-> "active", dungeon |-> dungeonId, current_floor |-> 1, current_room |-> 1,
   pending |-> FALSE,
   room_state |-> [is_combat_active |-> FALSE, enemies |-> <<>>],
   run_stats |-> [rooms_cleared |-> 0, status_effects |-> <<>>],
   ctx |-> <<>>]

\* a gold check that lets every character in
notEnoughGoldNever(gold, entryCost) == FALSE

\* startRun line 94: playerRow.gold < dungeon.entry_cost
notEnoughGold(gold, entryCost) == gold < entryCost

\* startRun(playerId, dungeonId)
StartRun ==
  \E d \in 1..Len(Dungeons) :
    /\ calls < MaxCalls
    /\ calls' = calls + 1
    /\ UNCHANGED <<floorVars, inv, xp, tasks, passed, failures>>
    /\ IF getActiveRun(runs) # {} \/ notEnoughGold(player.gold, Dungeons[d].entry_cost)
       THEN /\ lastCall' = [op |-> "startRun", outcome |-> "rejected", task |-> 0, arg |-> d]
            /\ UNCHANGED <<player, runs, floorMaps>>
       ELSE /\ Len(runs) < MaxRuns
            /\ \E floorMap \in generateFloor(Dungeons[d], 1, Dungeons[d].floor_count = 1,
                                             EnemyRules, RndRun) :
                 /\ player' = [player EXCEPT !.gold = @ - Dungeons[d].entry_cost]
                 /\ runs' = Append(runs,
                      [createRun(d) EXCEPT
                         !.room_state = buildRoomState(floorMap[getCurrentRoom(floorMap, 1)])])
                 /\ floorMaps' = Append(floorMaps, <<floorMap>>)
            /\ lastCall' = [op |-> "startRun", outcome |-> "ok", task |-> 0, arg |-> d]

\* abandonRun(playerId)
AbandonRun ==
  /\ calls < MaxCalls
  /\ calls' = calls + 1
  /\ UNCHANGED <<floorVars, player, inv, xp, floorMaps, tasks, passed, failures>>
  /\ IF getActiveRun(runs) = {}
     THEN /\ lastCall' = [op |-> "abandonRun", outcome |-> "rejected", task |-> 0, arg |-> 0]
          /\ UNCHANGED runs
     ELSE \E r \in getActiveRun(runs) :
            /\ runs' = [runs EXCEPT ![r].status = "abandoned"]
            /\ lastCall' = [op |-> "abandonRun", outcome |-> "ok", task |-> 0, arg |-> r]

(***************************************************************************)
(* Dice (src/src/engine/dice.js) and XP (src/src/engine/combat.js)          *)
(***************************************************************************)
\* the character's base stats and skill levels (all checks of a run use them)
BaseStat == [strength |-> 10, dexterity |-> 10, wisdom |-> 10]

SKILL_STAT_MAP == [melee |-> "strength", ranged |-> "dexterity", magic |-> "intelligence",
                   stealth |-> "dexterity", perception |-> "wisdom",
                   persuasion |-> "charisma", lockpicking |-> "dexterity",
                   survival |-> "wisdom", crafting |-> "intelligence",
                   alchemy |-> "intelligence"]

\* a modifier that rounds toward zero
statModifierTruncated(statValue) ==
  IF statValue >= 10 THEN (statValue - 10) \div 2 ELSE 0 - ((10 - statValue) \div 2)

statModifier(statValue) == FloorDiv(statValue - 10, 2)

\* skillCheck lines 114-129: the d20 that counts, r1 and r2 being the rolls made
baseRollOf(advantage, disadvantage, r1, r2) ==
  IF advantage /\ ~disadvantage THEN Max2(r1, r2)
  ELSE IF disadvantage /\ ~advantage THEN Min2(r1, r2)
  ELSE r1

\* skillCheck lines 132-133: baseStats[governingStat] || 10
statValueOf(skillName, baseStats) ==
  IF skillName \in DOMAIN SKILL_STAT_MAP
  THEN LET governingStat == SKILL_STAT_MAP[skillName]
       IN  IF governingStat \in DOMAIN baseStats /\ baseStats[governingStat] # 0
           THEN baseStats[governingStat] ELSE 10
  ELSE 10

\* skillCheck line 143: perkBonuses.reduce((sum, p) => sum + (p.effect || 0), 0)
RECURSIVE perkTotalOf(_)
perkTotalOf(perkBonuses) ==
  IF perkBonuses = <<>> THEN 0
  ELSE perkTotalOf(SubSeq(perkBonuses, 1, Len(perkBonuses) - 1))
       + perkBonuses[Len(perkBonuses)].effect

\* an outcome rule that looks at the natural 1 before the crit range and counts
\* a total three below the DC as partial
outcomeOfFumbleFirst(baseRoll, critRange, finalTotal, dc) ==
  IF baseRoll = 1 THEN "critical_failure"
  ELSE IF baseRoll >= critRange THEN "critical_success"
  ELSE IF finalTotal >= dc THEN "success"
  ELSE IF finalTotal >= dc - 3 THEN "partial"
  ELSE "failure"

\* skillCheck lines 148-164: the outcome
outcomeOf(baseRoll, critRange, finalTotal, dc) ==
  IF baseRoll >= critRange THEN "critical_success"
  ELSE IF baseRoll = 1 THEN "critical_failure"
  ELSE IF finalTotal >= dc THEN "success"
  ELSE IF finalTotal >= dc - 2 THEN "partial"
  ELSE "failure"

\* skillCheck lines 134-181: the result once the d20 that counts, the governing
\* stat's value, the skill level and the perk total are known
skillCheckResult(baseRoll, statValue, level, perkTotal, critRange, dc) ==
  LET statMod == statModifier(statValue)
      skillBonus == level \div 10
      finalTotal == baseRoll + statMod + skillBonus + perkTotal
      outcome == outcomeOf(baseRoll, critRange, finalTotal, dc)
  IN  [base_roll |-> baseRoll, stat_modifier |-> statMod, stat_value |-> statValue,
       skill_level |-> level, skill_bonus |-> skillBonus, perk_total |-> perkTotal,
       final_total |-> finalTotal, dc |-> dc, outcome |-> outcome,
       passed |-> outcome \in {"success", "critical_success", "partial"},
       is_critical |-> baseRoll >= critRange, is_fumble |-> baseRoll = 1]

\* skillCheck({skillName, dc, baseStats, skills, critRange, perkBonuses, advantage,
\* disadvantage}) when the d20 shows r1 and, for a second roll, r2; skillLevel is
\* skills[skillName].level (0 when the skill is missing)
skillCheck(skillName, dc, baseStats, skillLevel, critRange, perkBonuses, advantage, disadvantage, r1, r2) ==
  skillCheckResult(baseRollOf(advantage, disadvantage, r1, r2),
                   statValueOf(skillName, baseStats),
                   IF skillLevel = 0 THEN 1 ELSE skillLevel,
                   perkTotalOf(perkBonuses), critRange, dc)

\* distributeXp: Math.max(1, Math.round(baseXp * multiplier)), multiplier in quarters
xpAmount(baseXp, outcome) ==
  LET quarters == IF outcome = "critical_success" THEN 8
                  ELSE IF outcome = "failure" THEN 2
                  ELSE IF outcome = "critical_failure" THEN 1
                  ELSE 4
  IN  Max2(1, (baseXp * quarters + 2) \div 4)

\* the d20 values a run's checks are enumerated over
D20 == {6, 15}

(***************************************************************************)
(* A turn: processAction (src/unnamed/part_008)                             *)
(***************************************************************************)
\* the database as one value
Db == [player |-> player, inv |-> inv, xp |-> xp, runs |-> runs, maps |-> floorMaps]

\* X = [db, L, err, n, fail]: the database, the turn's in-memory values, whether
\* an exception is propagating, the persistence calls made, and which call throws
\* a persistence call that leaves the database as newdb, or throws
DbWrite(X, newdb) ==
  IF X.err THEN X
  ELSE IF X.n + 1 = X.fail THEN [X EXCEPT !.err = TRUE, !.n = @ + 1]
  ELSE [X EXCEPT !.db = newdb, !.n = @ + 1]

\* an assignment to the turn's in-memory values
Mem(X, newL) == IF X.err THEN X ELSE [X EXCEPT !.L = newL]

\* queries.updateFloorMap(run.id, floor, floorMap)
updateFloorMap(db, r, floor, floorMap) == [db EXCEPT !.maps[r][floor] = floorMap]

\* distributeXp's write: queries.updateSkillXp
updateSkillXp(db, skillName, amount) == [db EXCEPT !.xp[skillName] = @ + amount]

\* the values processAction holds after its loads (lines 156-199)
TurnLocals(db, r, intentType, before) ==
  [run |-> r, intent |-> intentType,
   cur_floor |-> db.runs[r].current_floor, cur_room |-> db.runs[r].current_room,
   fm |-> db.maps[r][db.runs[r].current_floor],
   rs |-> db.runs[r].room_state, stats |-> db.runs[r].run_stats, ctx |-> db.runs[r].ctx,
   p |-> db.player,
   hpChange |-> 0, updatedPlayerHp |-> db.player.hp_current, goldGained |-> 0, loot |-> 0,
   playerDied |-> FALSE, runDied |-> FALSE, runComplete |-> FALSE,
   floorTransition |-> FALSE, bossRoomEntered |-> FALSE, moveBlocked |-> FALSE,
   chestLooted |-> FALSE, noLockpick |-> FALSE, lockPassed |-> 0, snap |-> before,
   checks |-> <<>>, enemyTurns |-> <<>>, poisonTick |-> 0, fleeSuccess |-> FALSE,
   target |-> 0, raw |-> "", itemUsed |-> FALSE, statusEffectsApplied |-> <<>>]

\* tickStatusEffects, lines 44-50: the poison damage of one tick
RECURSIVE poisonDamage(_)
poisonDamage(effects) ==
  IF effects = <<>> THEN 0
  ELSE (IF Head(effects).type = "poison"
        THEN (IF Head(effects).damage_per_tick = 0 THEN 2 ELSE Head(effects).damage_per_tick)
        ELSE 0)
       + poisonDamage(Tail(effects))

\* a tick that removes an effect one action after its duration reached zero
tickedEffectsLate(effects) ==
  LET expired(e) == e.duration >= 0
  IN  SelectSeq([i \in 1..Len(effects) |-> [effects[i] EXCEPT !.duration = @ - 1]], expired)

\* tickStatusEffects, lines 50-55: every duration is decremented, the effects
\* whose duration reached zero are removed
tickedEffects(effects) ==
  LET live(e) == e.duration > 0
  IN  SelectSeq([i \in 1..Len(effects) |-> [effects[i] EXCEPT !.duration = @ - 1]], live)

\* tickStatusEffects(result, run, player), on the turn's values
tickStatusEffects(L) ==
  [L EXCEPT !.stats.status_effects = tickedEffects(@),
            !.hpChange = @ - poisonDamage(L.stats.status_effects),
            !.updatedPlayerHp = @ - poisonDamage(L.stats.status_effects),
            !.poisonTick = poisonDamage(L.stats.status_effects)]

\* an exception thrown by the database itself (a constraint violation)
DbThrow(X) == IF X.err THEN X ELSE [X EXCEPT !.err = TRUE, !.n = @ + 1]

\* queries.saveFloorMap: an insert; UNIQUE(run_id, floor_number) rejects a second
\* row for the same floor (src/unnamed/part_005:264-271)
saveFloorMap(X, r, floor, floorMap) ==
  IF X.err THEN X
  ELSE IF floor <= Len(X.db.maps[r]) THEN DbThrow(X)
  ELSE DbWrite(X, [X.db EXCEPT !.maps[r] = Append(@, floorMap)])

\* a target that is the highest-numbered accessible connection even when a
\* lower one is not yet cleared
moveTargetHighestFirst(floorMap, cur, targetRoom) ==
  LET conns == floorMap[cur].connections
      anyAccessible == { c \in SeqToSet(conns) :
                           /\ getCurrentRoom(floorMap, c) # 0
                           /\ floorMap[getCurrentRoom(floorMap, c)].is_accessible }
  IN  IF targetRoom # 0 THEN targetRoom
      ELSE IF anyAccessible # {}
      THEN CHOOSE c \in anyAccessible : \A o \in anyAccessible : o <= c
      ELSE IF conns # <<>> THEN conns[Len(conns)]
      ELSE 0

\* processMove, lines 1009-1026: the target room number, 0 when there is none
moveTarget(floorMap, cur, targetRoom) ==
  LET conns == floorMap[cur].connections
      known == { c \in SeqToSet(conns) : getCurrentRoom(floorMap, c) # 0 }
      accessible == FilterSeq(conns, { c \in known :
                       /\ floorMap[getCurrentRoom(floorMap, c)].is_accessible
                       /\ ~floorMap[getCurrentRoom(floorMap, c)].is_cleared })
      anyAccessible == { c \in known : floorMap[getCurrentRoom(floorMap, c)].is_accessible }
      highestAccessible == IF anyAccessible = {} THEN 0
                           ELSE CHOOSE c \in anyAccessible : \A o \in anyAccessible : o <= c
  IN  IF targetRoom # 0 THEN targetRoom
      ELSE IF accessible # <<>> THEN accessible[1]
      ELSE IF highestAccessible # 0 THEN highestAccessible
      ELSE IF conns # <<>> THEN conns[Len(conns)]
      ELSE 0

\* processMove, lines 1053-1091: moving into the exit room of a non-final floor
moveToNextFloor(X, L1, newFloorMap) ==
  LET r == L1.run
      nextFloor == L1.cur_floor + 1
      X1 == saveFloorMap(Mem(X, L1), r, nextFloor, newFloorMap)
      L2 == [L1 EXCEPT !.cur_floor = nextFloor, !.cur_room = 1, !.floorTransition = TRUE,
                       !.rs = buildRoomState(newFloorMap[getCurrentRoom(newFloorMap, 1)]),
                       !.ctx = <<>>]
      X2 == DbWrite(Mem(X1, L2),
                    [X1.db EXCEPT !.runs[r].current_floor = nextFloor,
                                  !.runs[r].current_room = 1, !.runs[r].ctx = <<>>])
  IN  DbWrite(X2, updateFloorMap(X2.db, r, nextFloor - 1, L1.fm))

\* processMove, lines 1094-1164: moving to a room of the same floor
moveOnFloor(X, L1, t, baseRoll) ==
  LET r == L1.run
      ti == getCurrentRoom(L1.fm, t)
      target == L1.fm[ti]
      L2 == [L1 EXCEPT !.cur_room = t,
                       !.rs = [buildRoomState(target) EXCEPT
                                 !.is_combat_active = Len(target.enemies) > 0],
                       !.bossRoomEntered = target.is_boss_room]
      X1 == DbWrite(Mem(X, L2), [X.db EXCEPT !.runs[r].current_room = t])
      X2 == DbWrite(X1, updateFloorMap(X1.db, r, L2.cur_floor, L2.fm))
      trapCheck == skillCheck("perception", target.trap.dc, BaseStat, 1, 20, <<>>, FALSE, FALSE,
                              baseRoll, baseRoll)
      hp3 == L2.updatedPlayerHp - target.trap.damage
      L3 == IF trapCheck.passed THEN [L2 EXCEPT !.checks = Append(@, "perception")]
            ELSE [L2 EXCEPT !.fm[ti].trap.is_triggered = TRUE,
                            !.checks = Append(@, "perception"),
                            !.hpChange = @ - target.trap.damage,
                            !.updatedPlayerHp = IF hp3 <= 0 THEN 0 ELSE hp3,
                            !.playerDied = @ \/ hp3 <= 0, !.runDied = @ \/ hp3 <= 0]
      X3 == DbWrite(Mem(X2, L3),
                    updateSkillXp(X2.db, "perception", xpAmount(5, trapCheck.outcome)))
  IN  IF target.trap.present /\ ~target.trap.is_triggered /\ ~target.trap.is_disarmed
      THEN DbWrite(X3, updateFloorMap(X3.db, r, L3.cur_floor, L3.fm))
      ELSE X2

\* processMove(result, intent, run, ...): targetRoom is intent.targetRoom (0: none),
\* baseRoll the d20 of the trap check, newFloorMap the floor generateFloor returns
processMove(X, targetRoom, baseRoll, newFloorMap) ==
  LET L == X.L
      cur == getCurrentRoom(L.fm, L.cur_room)
      L1 == IF L.fm[cur].is_cleared THEN L
            ELSE [L EXCEPT !.fm = clearRoom(L.fm, L.cur_room).map,
                           !.stats.rooms_cleared = @ + 1]
      t == moveTarget(L1.fm, cur, targetRoom)
      ti == getCurrentRoom(L1.fm, t)
  IN  IF t = 0 \/ ti = 0 THEN Mem(X, [L1 EXCEPT !.intent = "general"])
      ELSE IF ~L1.fm[ti].is_accessible THEN Mem(X, [L1 EXCEPT !.moveBlocked = TRUE])
      ELSE IF L1.fm[ti].is_exit
              /\ L1.cur_floor + 1 <= Dungeons[X.db.runs[L.run].dungeon].floor_count
           THEN moveToNextFloor(X, L1, newFloorMap)
      ELSE moveOnFloor(X, L1, t, baseRoll)

\* processChestLoot: lootCount items from resolveLoot('chest'), chestGold from
\* rollGoldDrop(15, 40)
processChestLoot(L, cur, lootCount, chestGold) ==
  LET chest == L.fm[cur].chest
  IN  IF ~chest.present \/ chest.is_locked \/ chest.is_looted THEN L
      ELSE [L EXCEPT !.fm[cur].chest.is_opened = TRUE, !.fm[cur].chest.is_looted = TRUE,
                     !.chestLooted = TRUE, !.loot = @ + lootCount,
                     !.goldGained = @ + chestGold]

\* processSkillCheck, lines 670-692: what a lockpicking attempt works on
\* ("none": no lock in reach) and the DC of the check
lockpickTarget(floorMap, cur, skillName, genericDc) ==
  LET room == floorMap[cur]
      adjacent == FilterSeq(room.connections,
                    { c \in SeqToSet(room.connections) :
                        /\ getCurrentRoom(floorMap, c) # 0
                        /\ floorMap[getCurrentRoom(floorMap, c)].type = "locked"
                        /\ ~floorMap[getCurrentRoom(floorMap, c)].is_accessible
                        /\ floorMap[getCurrentRoom(floorMap, c)].lock.present })
  IN  IF skillName = "lockpicking" /\ room.type = "locked" /\ room.lock.present
      THEN [kind |-> "current_room", roomNumber |-> room.room_number, dc |-> room.lock.lock_dc]
      ELSE IF skillName = "lockpicking" /\ room.chest.present /\ room.chest.is_locked
      THEN [kind |-> "chest", roomNumber |-> 0, dc |-> room.chest.lock_dc]
      ELSE IF skillName = "lockpicking" /\ adjacent # <<>>
      THEN [kind |-> "adjacent_room", roomNumber |-> adjacent[1],
            dc |-> floorMap[getCurrentRoom(floorMap, adjacent[1])].lock.lock_dc]
      ELSE IF /\ skillName # "lockpicking" /\ skillName = "perception"
              /\ room.trap.present /\ ~room.trap.is_disarmed
      THEN [kind |-> "none", roomNumber |-> 0, dc |-> room.trap.dc]
      ELSE [kind |-> "none", roomNumber |-> 0, dc |-> genericDc]

\* processSkillCheck, lines 708-759: the check and what follows from it
skillCheckEffects(X, skillName, tgt, baseRoll, lootCount, chestGold) ==
  LET L == [X.L EXCEPT !.checks = Append(@, skillName)]
      cur == getCurrentRoom(L.fm, L.cur_room)
      check == skillCheck(skillName, tgt.dc, BaseStat, 1, 20, <<>>, FALSE, FALSE,
                              baseRoll, baseRoll)
      picked == check.passed /\ skillName = "lockpicking"
      L1 == IF picked /\ tgt.kind = "current_room"
            THEN [L EXCEPT !.fm = unlockRoom(L.fm, tgt.roomNumber),
                           !.lockPassed = tgt.roomNumber]
            ELSE IF picked /\ tgt.kind = "chest"
            THEN processChestLoot([L EXCEPT !.fm[cur].chest.is_locked = FALSE],
                                  cur, lootCount, chestGold)
            ELSE IF picked /\ tgt.kind = "adjacent_room"
            THEN [L EXCEPT !.fm = unlockRoom(L.fm, tgt.roomNumber),
                           !.lockPassed = tgt.roomNumber]
            ELSE L
      trap == L1.fm[cur].trap
      L2 == IF trap.present /\ ~trap.is_disarmed
            THEN IF skillName = "perception" /\ check.passed
                 THEN [L1 EXCEPT !.fm[cur].trap.is_disarmed = TRUE]
                 ELSE IF ~check.passed
                 THEN [L1 EXCEPT !.fm[cur].trap.is_triggered = TRUE,
                                 !.hpChange = @ - trap.damage,
                                 !.updatedPlayerHp = @ - trap.damage]
                 ELSE L1
            ELSE L1
  IN  DbWrite(Mem(X, L2), updateSkillXp(X.db, skillName, xpAmount(10, check.outcome)))

\* a lockpicking attempt that leaves the pick in the inventory
removePickNever(db) == db

\* processSkillCheck, line 703: queries.removeItem(pick.id, 1)
removePick(db) == [db EXCEPT !.inv.picks = @ - 1]

\* processSkillCheck(result, intent, run, ...): skillName is intent.skill, genericDc
\* the value randomDC(dungeon.dc_range) returns, baseRoll the d20 of the check
processSkillCheck(X, skillName, genericDc, baseRoll, lootCount, chestGold) ==
  LET L == X.L
      cur == getCurrentRoom(L.fm, L.cur_room)
      tgt == lockpickTarget(L.fm, cur, skillName, genericDc)
  IN  IF skillName = "lockpicking" /\ tgt.kind # "none"
      THEN IF X.db.inv.picks = 0
           THEN Mem(X, [L EXCEPT !.noLockpick = TRUE])
           ELSE skillCheckEffects(DbWrite(X, removePick(X.db)),
                                  skillName, tgt, baseRoll, lootCount, chestGold)
      ELSE skillCheckEffects(X, skillName, tgt, baseRoll, lootCount, chestGold)

(***************************************************************************)
(* Combat (src/src/engine/combat.js), rest and flight                       *)
(***************************************************************************)
\* index of the first living enemy of the room state, 0 when there is none
firstLiving(enemies) ==
  IF \E k \in 1..Len(enemies) : ~enemies[k].is_dead
  THEN CHOOSE k \in 1..Len(enemies) :
         ~enemies[k].is_dead /\ \A j \in 1..(k - 1) : enemies[j].is_dead
  ELSE 0

\* a kill with some enemy dead, in place of all of them
someEnemyDead(enemies) == \E j \in 1..Len(enemies) : enemies[j].is_dead

\* damageEnemy: roomState.enemies.every(e => e.is_dead)
allDead(enemies) == \A j \in 1..Len(enemies) : enemies[j].is_dead

\* damageEnemy(enemy, damage, damageType, player, roomState), with enemy the k-th
\* element of roomState.enemies (the object processAttack passes is that element)
\* and resistance its multiplier for the damage type in hundredths, 100 when it
\* has no entry: the room state afterwards and the fields of the result
damageEnemy(k, damage, resistance, roomState) ==
  LET enemy == roomState.enemies[k]
      afterResistance == (2 * damage * resistance + 100) \div 200
      afterArmor == Max2(1, afterResistance - enemy.armor)
      hp == enemy.hp_current - afterArmor
      enemyDied == hp <= 0
      enemies1 == [roomState.enemies EXCEPT
                     ![k] = IF enemyDied THEN [enemy EXCEPT !.hp_current = 0, !.is_dead = TRUE]
                            ELSE [enemy EXCEPT !.hp_current = hp]]
  IN  [roomState |-> [roomState EXCEPT
                        !.enemies = enemies1,
                        !.is_combat_active = IF enemyDied /\ allDead(enemies1) THEN FALSE
                                             ELSE @],
       damageDealt |-> afterArmor, enemyDied |-> enemyDied]

\* the unarmed melee damage: Math.round(5 + strength / 3), no weapon bonus
playerDamage == (33 + 2 * BaseStat.strength) \div 6

\* processAttack(result, intent, run, ...): baseRoll is the d20 of the attack
\* check, lootCount and goldDrop what resolveLoot and rollGoldDrop return on a kill
processAttack(X, baseRoll, lootCount) ==
  LET L == X.L
      k == IF L.target # 0 THEN L.target ELSE firstLiving(L.rs.enemies)
      target == L.rs.enemies[k]
      attackCheck == skillCheck("melee", 10 + (target.armor \div 2), BaseStat, 1, 20, <<>>,
                                FALSE, FALSE, baseRoll, baseRoll)
      hit == damageEnemy(k, playerDamage, 100, [L.rs EXCEPT !.is_combat_active = TRUE])
      L1 == [L EXCEPT !.rs = hit.roomState, !.checks = Append(@, "melee"),
                      !.loot = IF hit.enemyDied THEN @ + lootCount ELSE @,
                      !.goldGained = IF hit.enemyDied THEN @ + target.gold_reward_min ELSE @]
  IN  IF k = 0 THEN Mem(X, [L EXCEPT !.intent = "general"])
      ELSE IF attackCheck.passed
      THEN IF hit.enemyDied
           THEN DbWrite(Mem(X, L1),
                        updateSkillXp(X.db, "melee",
                                      xpAmount(target.xp_reward, attackCheck.outcome)))
           ELSE Mem(X, L1)
      ELSE DbWrite(Mem(X, [L EXCEPT !.rs.is_combat_active = TRUE,
                                    !.checks = Append(@, "melee")]),
                   updateSkillXp(X.db, "melee", xpAmount(3, attackCheck.outcome)))

\* processEnemyTurn: the damage one enemy deals when the dodge check shows
\* baseRoll (rollDamage at variance 1.0, no player armour)
enemyDamage(enemy, baseRoll) ==
  LET dodgeCheck == skillCheck("melee", enemy.base_dc, BaseStat, 1, 20, <<>>, FALSE, FALSE,
                              baseRoll, baseRoll)
      mitigated == Max2(1, enemy.damage)
  IN  IF enemy.is_dead THEN 0
      ELSE IF dodgeCheck.passed /\ baseRoll # 1
      THEN IF dodgeCheck.outcome = "partial" THEN mitigated \div 2 ELSE 0
      ELSE mitigated

\* processEnemyTurn: result.effects when the dodge check shows baseRoll and, for
\* drawn, Math.random() < ability.effect_chance
enemyEffects(enemy, baseRoll, drawn) ==
  LET dodgeCheck == skillCheck("melee", enemy.base_dc, BaseStat, 1, 20, <<>>, FALSE, FALSE,
                              baseRoll, baseRoll)
  IN  IF enemy.is_dead \/ (dodgeCheck.passed /\ baseRoll # 1) THEN <<>>
      ELSE IF enemy.effect.present /\ drawn
      THEN << [type |-> enemy.effect.status,
               duration |-> IF enemy.effect.duration_actions = 0 THEN 3
                            ELSE enemy.effect.duration_actions,
               source |-> enemy.name] >>
      ELSE <<>>

\* processAction, lines 268-285: effects is run.run_stats.status_effects; a poison
\* of a source already listed refreshes that entry, any other poison is pushed
applyEffect(effects, effect) ==
  LET d == IF effect.duration = 0 THEN 5 ELSE effect.duration
      same == { i \in 1..Len(effects) :
                  effects[i].type = "poison" /\ effects[i].source = effect.source }
  IN  IF effect.type # "poison" THEN effects
      ELSE IF same # {}
      THEN [effects EXCEPT ![CHOOSE i \in same : \A j \in same : i <= j].duration = Max2(@, d)]
      ELSE Append(effects, [type |-> "poison", duration |-> d, damage_per_tick |-> 2,
                            source |-> effect.source])

\* the status effects after the enemy turns from enemy k on; rolls.effect holds
\* the enemies whose effect draw succeeded
RECURSIVE enemyTurnsEffects(_, _, _, _)
enemyTurnsEffects(effects, enemies, rolls, k) ==
  IF k > Len(enemies) THEN effects
  ELSE LET es == enemyEffects(enemies[k], rolls.dodge[k], k \in rolls.effect)
       IN  enemyTurnsEffects(IF es = <<>> THEN effects ELSE applyEffect(effects, es[1]),
                             enemies, rolls, k + 1)

\* result.statusEffectsApplied: the effects of the enemy turns from enemy k on
RECURSIVE statusEffectsApplied(_, _, _)
statusEffectsApplied(enemies, rolls, k) ==
  IF k > Len(enemies) THEN <<>>
  ELSE enemyEffects(enemies[k], rolls.dodge[k], k \in rolls.effect)
       \o statusEffectsApplied(enemies, rolls, k + 1)

\* the enemies of the loop that are not skipped as dead, in order
livingEnemies(enemies) == FilterSeq([k \in 1..Len(enemies) |-> k],
                                    { k \in 1..Len(enemies) : ~enemies[k].is_dead })

\* the damage of all enemy turns of a round, rolls[k] the dodge d20 against enemy k
RECURSIVE enemyTurnsDamage(_, _, _)
enemyTurnsDamage(enemies, rolls, k) ==
  IF k > Len(enemies) THEN 0
  ELSE enemyDamage(enemies[k], rolls[k]) + enemyTurnsDamage(enemies, rolls, k + 1)

\* a cleanse that leaves the status effects as they are
cleansedNothing(effects, types) == effects

\* processUseItem, lines 958-966: the status effects whose type the item names
\* are removed
cleansed(effects, types) ==
  LET kept(e) == e.type \notin types IN SelectSeq(effects, kept)

\* the rolled amounts of the Health Potion (use_effect: heal, min_value 10,
\* value 20; src/unnamed/part_007:179-182): the least and the greatest
PotionHeals == {10, 20}

\* processUseItem for a text that names the Antidote (use_effect: cleanse
\* ['poison']) or the Health Potion (use_effect: heal, rolled as heal): without
\* the item in the inventory nothing is used; with one the effect is applied
\* and one item is removed
processUseItem(X, heal) ==
  LET L == X.L
  IN  IF L.raw = "use potion"
      THEN IF X.db.inv.potions = 0 THEN X
           ELSE DbWrite(Mem(X, [L EXCEPT !.hpChange = @ + heal,
                                         !.updatedPlayerHp =
                                            Min2(L.p.hp_max, L.p.hp_current + heal),
                                         !.itemUsed = TRUE]),
                        [X.db EXCEPT !.inv.potions = @ - 1])
      ELSE IF X.db.inv.antidotes = 0 THEN X
      ELSE DbWrite(Mem(X, [L EXCEPT !.stats.status_effects = cleansed(@, {"poison"}),
                                    !.itemUsed = TRUE]),
                   [X.db EXCEPT !.inv.antidotes = @ - 1])

\* processRest
processRest(X) ==
  LET L == X.L
      room == L.fm[getCurrentRoom(L.fm, L.cur_room)]
      healAmount == (L.p.hp_max * room.rest_heal + 50) \div 100
  IN  IF room.type # "rest" THEN X
      ELSE Mem(X, [L EXCEPT !.hpChange = @ + healAmount,
                            !.updatedPlayerHp = Min2(L.p.hp_max, L.p.hp_current + healAmount)])

\* an opportunity multiplier of one half for every passed check
oppMultiplierHalf(outcome) == 2

\* processFlee, lines 1198-1201: oppMultiplier in quarters
oppMultiplier(outcome) ==
  IF outcome = "critical_success" THEN 0 ELSE IF outcome = "success" THEN 1 ELSE 2

\* processFlee, lines 1203-1211: the opportunity attacks of the living enemies
\* from enemy k on, Math.round(enemy.damage * oppMultiplier) each
RECURSIVE oppAttacks(_, _, _)
oppAttacks(enemies, quarters, k) ==
  IF k > Len(enemies) THEN 0
  ELSE (IF quarters > 0 /\ ~enemies[k].is_dead
        THEN (enemies[k].damage * quarters + 2) \div 4 ELSE 0)
       + oppAttacks(enemies, quarters, k + 1)

\* processFlee: baseRoll is the d20 of the stealth check against DC 12
processFlee(X, baseRoll) ==
  LET L == [X.L EXCEPT !.checks = Append(@, "stealth")]
      check == skillCheck("stealth", 12, BaseStat, 1, 20, <<>>, FALSE, FALSE,
                              baseRoll, baseRoll)
      total == oppAttacks(L.rs.enemies, oppMultiplier(check.outcome), 1)
  IN  IF check.passed
      THEN Mem(X, [L EXCEPT !.rs.is_combat_active = FALSE,
                            !.hpChange = @ - total,
                            !.updatedPlayerHp = @ - total,
                            !.fleeSuccess = TRUE])
      ELSE Mem(X, L)

(***************************************************************************)
(* processAction after the handler: enemy turns, applyResults, bookkeeping  *)
(***************************************************************************)
\* config.game.aiContextWindow
aiContextWindow == 12

\* while (aiContext.length > window) aiContext.shift()
RECURSIVE shiftWhileLonger(_, _)
shiftWhileLonger(aiContext, window) ==
  IF Len(aiContext) > window THEN shiftWhileLonger(Tail(aiContext), window) ELSE aiContext

\* a window that keeps the oldest entries and drops the one just pushed
pushContextKeepOldest(aiContext, entry) ==
  SubSeq(Append(aiContext, entry), 1, Min2(Len(aiContext) + 1, aiContextWindow))

\* processAction, lines 320-331: the turn's entry is pushed, then the window is cut
pushContext(aiContext, entry) == shiftWhileLonger(Append(aiContext, entry), aiContextWindow)

\* handleGameMessage (src/unnamed/part_001:1027-1040): the narration's entry is
\* pushed onto the context read back from the run, then `while (ctx.length > 12)
\* ctx.shift()`
storeNarration(ctx, entry) == shiftWhileLonger(Append(ctx, entry), 12)

\* an enemy phase that a failed flee does not skip
enemiesActAfterFailedFlee(L) ==
  /\ L.rs.is_combat_active /\ ~L.playerDied
  /\ (L.intent # "flee" \/ ~L.fleeSuccess) /\ ~L.bossRoomEntered

\* an enemy phase that the entry into the boss room does not skip
enemiesActOnBossEntry(L) ==
  /\ L.rs.is_combat_active /\ ~L.playerDied
  /\ L.intent # "flee"

\* processAction, line 257: whether the enemies take their turns
enemiesAct(L) ==
  /\ L.rs.is_combat_active /\ ~L.playerDied
  /\ L.intent # "flee" /\ ~L.bossRoomEntered

\* processAction, lines 255-307: enemy turns and the death checks; rolls.dodge[k]
\* is the dodge d20 against enemy k
enemyTurns(L, rolls) ==
  LET acts == enemiesAct(L)
      dmg == IF acts THEN enemyTurnsDamage(L.rs.enemies, rolls.dodge, 1) ELSE 0
      hp == L.updatedPlayerHp - dmg
  IN  [L EXCEPT !.hpChange = @ - dmg,
                !.updatedPlayerHp = IF hp <= 0 THEN 0 ELSE hp,
                !.playerDied = @ \/ hp <= 0,
                !.runDied = @ \/ hp <= 0,
                !.stats.status_effects =
                   IF acts THEN enemyTurnsEffects(@, L.rs.enemies, rolls, 1) ELSE @,
                !.statusEffectsApplied =
                   IF acts THEN statusEffectsApplied(L.rs.enemies, rolls, 1) ELSE <<>>,
                !.enemyTurns = IF acts THEN livingEnemies(L.rs.enemies) ELSE <<>>]

\* the sum written without its limits
newHpUnclamped(p, hpChange) == p.hp_current + hpChange

\* applyResults: newHp, from the player row read when the turn began
newHpOf(p, hpChange) == Max2(0, Min2(p.hp_max, p.hp_current + hpChange))

\* applyResults: the database after the transaction commits
applyResultsDb(db, L) ==
  LET r == L.run
      dungeon == Dungeons[db.runs[r].dungeon]
      newHp == newHpOf(L.p, L.hpChange)
      db1 == IF L.hpChange # 0 THEN [db EXCEPT !.player.hp_current = newHp] ELSE db
      db2 == IF L.goldGained > 0 THEN [db1 EXCEPT !.player.gold = @ + L.goldGained] ELSE db1
      db3 == [db2 EXCEPT !.inv.loot[r] = @ + L.loot]
      \* handlePlayerDeath: half of the run's items, rounded up, are removed
      goldLoss == (L.p.gold * 25) \div 100
      db4 == IF L.runDied
             THEN [db3 EXCEPT !.inv.loot[r] = @ - ((@ + 1) \div 2),
                              !.player.gold = Max2(0, @ - goldLoss),
                              !.player.hp_current = 1,
                              !.runs[r].status = "dead"]
             ELSE db3
      db5 == IF L.runComplete THEN [db4 EXCEPT !.runs[r].status = "completed"] ELSE db4
      bossKilled == \E k \in 1..Len(L.rs.enemies) :
                      L.rs.enemies[k].is_boss = 1 /\ L.rs.enemies[k].is_dead
      completionGold == 50 + dungeon.difficulty_tier * 25
  IN  IF ~L.runComplete /\ bossKilled /\ dungeon.completion = "boss_killed"
      THEN [db5 EXCEPT !.player.gold = @ + completionGold,
                       !.player.hp_current = db5.player.hp_max,
                       !.runs[r].status = "completed"]
      ELSE db5

\* applyResults: what the transaction leaves in result
applyResultsMem(db, L) ==
  LET dungeon == Dungeons[db.runs[L.run].dungeon]
      newHp == newHpOf(L.p, L.hpChange)
      L1 == IF L.hpChange # 0 THEN [L EXCEPT !.updatedPlayerHp = newHp] ELSE L
      bossKilled == \E k \in 1..Len(L.rs.enemies) :
                      L.rs.enemies[k].is_boss = 1 /\ L.rs.enemies[k].is_dead
  IN  IF ~L.runComplete /\ bossKilled /\ dungeon.completion = "boss_killed"
      THEN [L1 EXCEPT !.runComplete = TRUE,
                      !.goldGained = @ + 50 + dungeon.difficulty_tier * 25,
                      !.updatedPlayerHp = L.p.hp_max]
      ELSE L1

\* processAction, lines 255-310: enemy turns, death checks, then the one
\* transaction of applyResults, which commits as a whole or not at all
afterHandler(X, rolls) ==
  LET L1 == enemyTurns(X.L, rolls)
      X1 == Mem(X, L1)
  IN  Mem(DbWrite(X1, applyResultsDb(X1.db, L1)), applyResultsMem(X1.db, L1))

\* a floor map written back after every turn
savesFloorMapAlways(floorTransition) == TRUE

\* processAction, line 315: the turn's floor map is written back unless the turn
\* changed floor
savesFloorMap(floorTransition) == ~floorTransition

\* processAction, lines 312-362: floor map, context window, final status, log
finishTurn(X) ==
  LET L == X.L
      r == L.run
      X1 == IF savesFloorMap(L.floorTransition)
            THEN DbWrite(X, updateFloorMap(X.db, r, L.cur_floor, L.fm))
            ELSE X
      ctx == pushContext(L.ctx, [role |-> "user"])
      status == IF L.runDied THEN "dead" ELSE IF L.runComplete THEN "completed" ELSE "active"
      X2 == DbWrite(X1, [X1.db EXCEPT !.runs[r].status = status,
                                      !.runs[r].room_state = L.rs,
                                      !.runs[r].ctx = ctx,
                                      !.runs[r].run_stats = L.stats,
                                      !.runs[r].pending = FALSE])
  IN  \* queries.getNextSequence and queries.logAction
      DbWrite(X2, X2.db)

\* the catch block, line 366; the write can itself throw
restoreActive(db, r, catchFails) ==
  IF catchFails THEN db
  ELSE [db EXCEPT !.runs[r].status = "active", !.runs[r].pending = FALSE]

(***************************************************************************)
(* processAction as steps between its await points                          *)
(***************************************************************************)
\* what a player's message can say, by the patterns of classifyIntent
Texts == {"general", "attack", "flee", "move", "lockpick", "sneak", "rest"}

\* the words of an enemy's name (3+ characters) a text contains
NamedIn(text) ==
  IF text = "attack spider" THEN {"Venomous Spider"}
  ELSE IF text = "attack warden" THEN {"The Hollow Warden"}
  ELSE {}

\* findTargetEnemy(text, enemies): index of the targeted enemy, 0 for null
findTargetEnemy(text, enemies) ==
  LET living == livingEnemies(enemies)
      named == FilterSeq(living, { k \in 1..Len(enemies) : enemies[k].name \in NamedIn(text) })
  IN  IF living = <<>> THEN 0
      ELSE IF Len(living) = 1 THEN living[1]
      ELSE IF named # <<>> THEN named[1]
      ELSE living[1]

\* texts with one of the attack words of line 385
AttackTexts == {"attack", "attack spider", "attack warden"}

\* classifyIntent(actionText, currentRoom, roomState): intent.type
\* (skill_check carries intent.skill)
classifyIntent(text, currentRoom, roomState) ==
  IF roomState.is_combat_active /\ text \in AttackTexts THEN "attack"
  ELSE IF roomState.is_combat_active /\ text = "flee" THEN "flee"
  ELSE IF roomState.is_combat_active /\ text \in {"use antidote", "use potion"} THEN "use_item"
  ELSE IF text = "move" THEN "move"
  ELSE IF text \in {"use antidote", "use potion"} THEN "use_item"
  ELSE IF text = "lockpick" THEN "skill_check:lockpicking"
  ELSE IF text = "sneak" THEN "skill_check:stealth"
  ELSE IF text = "rest" THEN IF currentRoom.type = "rest" THEN "rest" ELSE "rest_failed"
  ELSE IF roomState.is_combat_active THEN "attack"
  ELSE "general"

\* intent.target of an attack intent (lines 392-396 and 494), 0 otherwise
intentTarget(intent, text, roomState) ==
  IF intent = "attack" THEN findTargetEnemy(text, roomState.enemies) ELSE 0

\* the intents whose handler processAction awaits (lines 208-240)
AwaitedIntents == {"attack", "skill_check:lockpicking", "skill_check:stealth", "move", "flee"}

\* what resolveLoot can return on a kill: no item or one
LootCounts == {0, 1}

\* the switch of processAction, lines 206-253
runHandler(X, targetRoom, baseRoll, genericDc, lootCount, newFloorMap, heal) ==
  LET intent == X.L.intent
  IN  IF intent = "attack" THEN processAttack(X, baseRoll, lootCount)
      ELSE IF intent = "skill_check:lockpicking"
      THEN processSkillCheck(X, "lockpicking", genericDc, baseRoll, lootCount, 15)
      ELSE IF intent = "skill_check:stealth"
      THEN processSkillCheck(X, "stealth", genericDc, baseRoll, lootCount, 15)
      ELSE IF intent = "move" THEN processMove(X, targetRoom, baseRoll, newFloorMap)
      ELSE IF intent = "use_item" THEN processUseItem(X, heal)
      ELSE IF intent = "rest" THEN processRest(X)
      ELSE IF intent = "flee" THEN processFlee(X, baseRoll)
      ELSE X

\* the idle caller with the lowest number
FreeTask == CHOOSE t \in Tasks : tasks[t].pc = "idle" /\ \A u \in Tasks : u < t => tasks[u].pc # "idle"

NoTurnInFlight == \A t \in Tasks : tasks[t].pc = "idle"

SetDb(db) ==
  /\ player' = db.player
  /\ inv' = db.inv
  /\ xp' = db.xp
  /\ runs' = db.runs
  /\ floorMaps' = db.maps

\* the dodge rolls of a round against the enemies of a room state
DodgeRollsOf(roomState, dice) ==
  IF roomState.is_combat_active
  THEN { [dodge |-> f, effect |-> S] :
           f \in [1..Len(roomState.enemies) -> dice],
           S \in SUBSET { k \in 1..Len(roomState.enemies) :
                            roomState.enemies[k].effect.present } }
  ELSE { [dodge |-> <<>>, effect |-> {}] }

DodgeRolls(roomState) == DodgeRollsOf(roomState, D20)

\* the persistence calls of a step that can be made to throw, n calls being made
FailChoices(n) == IF failures < MaxFailures THEN 0..n ELSE {0}

\* whether the write of the catch block can be made to throw after `thrown` throws
CatchChoices(thrown) == IF failures + thrown < MaxFailures THEN BOOLEAN ELSE {FALSE}

Thrown(fail) == IF fail > 0 THEN 1 ELSE 0

\* processAction returns or throws: the call of caller t on run r is over
TurnEnds(op, t, r, db, outcome, thrown) ==
  /\ SetDb(db)
  /\ tasks' = [tasks EXCEPT ![t] = IdleTask]
  /\ lastCall' = [op |-> op, outcome |-> outcome, task |-> t, arg |-> r]
  /\ failures' = failures + thrown

\* the catch block runs, then processAction throws
TurnThrows(op, t, r, db, thrown) ==
  \E catchFails \in CatchChoices(thrown) :
    TurnEnds(op, t, r, restoreActive(db, r, catchFails), "threw",
             thrown + IF catchFails THEN 1 ELSE 0)

\* processAction reaches an await: caller t is suspended at pc
TurnAwaits(op, t, r, X, pc, thrown) ==
  /\ SetDb(X.db)
  /\ tasks' = [tasks EXCEPT ![t] = [pc |-> pc, L |-> X.L, err |-> X.err]]
  /\ lastCall' = [op |-> op, outcome |-> "await", task |-> t, arg |-> r]
  /\ failures' = failures + thrown

\* the floors generateFloor can return when processMove, called with targetRoom
\* on the turn locals L, reaches line 1058; one placeholder when it does not
NextFloors(L, targetRoom) ==
  LET dungeon == Dungeons[runs[L.run].dungeon]
      nextFloor == L.cur_floor + 1
      cur == getCurrentRoom(L.fm, L.cur_room)
      fm1 == IF L.fm[cur].is_cleared THEN L.fm ELSE clearRoom(L.fm, L.cur_room).map
      ti == getCurrentRoom(fm1, moveTarget(fm1, cur, targetRoom))
  IN  IF /\ L.intent = "move" /\ ti # 0 /\ fm1[ti].is_accessible /\ fm1[ti].is_exit
         /\ nextFloor <= dungeon.floor_count
      THEN generateFloor(dungeon, nextFloor, nextFloor = dungeon.floor_count, EnemyRules, RndRun)
      ELSE { <<>> }

\* a step's starting point: database db, locals L, the fail-th persistence call throws
StepFrom(db, L, fail) == [db |-> db, L |-> L, err |-> FALSE, n |-> 0, fail |-> fail]

\* a status check that lets every run through
runNotActiveNever(run) == FALSE

\* processAction line 150: run.status !== 'active'
runNotActive(run) == run.status # "active"

\* a lock write that records the pending text and leaves the status alone
lockRunPendingOnly(db, r) == [db EXCEPT !.runs[r].pending = TRUE]

\* processAction line 153: updateRunState(run.id, { status: 'processing', pending_action_text })
lockRun(db, r) == [db EXCEPT !.runs[r].status = "processing", !.runs[r].pending = TRUE]

\* processAction(playerId, actionText), from the call to its first await
\* (lines 147-253; for an intent whose handler is not awaited, to line 310)
ProcessAction ==
  /\ calls < MaxCalls
  /\ \E t \in Tasks : tasks[t].pc = "idle"
  /\ calls' = calls + 1
  /\ UNCHANGED floorVars
  /\ IF getActiveRun(runs) = {}
     THEN /\ TurnEnds("processAction", FreeTask, 0, Db, "rejected", 0)
          /\ UNCHANGED passed
     ELSE \E r \in getActiveRun(runs) :
       IF runNotActive(runs[r])
       THEN /\ TurnEnds("processAction", FreeTask, r, Db, "rejected", 0)
            /\ UNCHANGED passed
       ELSE
         LET t == FreeTask
             locked == lockRun(Db, r)
             floorMap == floorMaps[r][runs[r].current_floor]
             cur == getCurrentRoom(floorMap, runs[r].current_room)
         IN  \/ \* line 153 throws, outside the try block
                /\ failures < MaxFailures
                /\ TurnEnds("processAction", t, r, Db, "threw_before_lock", 1)
                /\ UNCHANGED passed
             \/ \* line 165 throws
                /\ cur = 0
                /\ TurnThrows("processAction", t, r, locked, 0)
                /\ UNCHANGED passed
             \/ /\ cur # 0
                /\ \E text \in Texts :
                     LET intent == classifyIntent(text, floorMap[cur], runs[r].room_state)
                         L == tickStatusEffects(
                                [TurnLocals(locked, r, intent, Db) EXCEPT
                                   !.target = intentTarget(intent, text, runs[r].room_state),
                                   !.raw = text])
                     IN  \E targetRoom \in (IF intent = "move" THEN 0..(Len(floorMap) + 1)
                                             ELSE {0}),
                            baseRoll \in (IF intent \in AwaitedIntents THEN D20 ELSE {0}),
                            lootCount \in (IF intent = "attack" THEN LootCounts ELSE {0}) :
                          \E newFloorMap \in NextFloors(L, targetRoom) :
                            LET H(fail) == runHandler(StepFrom(locked, L, fail), targetRoom,
                                             baseRoll, Dungeons[runs[r].dungeon].dc_range.min,
                                             lootCount, newFloorMap, 10)
                                A(fail, rolls) == afterHandler(H(fail), rolls)
                            IN  /\ passed' = IF H(0).L.lockPassed # 0
                                             THEN passed \cup
                                                  {<<r, H(0).L.cur_floor, H(0).L.lockPassed>>}
                                             ELSE passed
                                /\ IF intent \in AwaitedIntents
                                   THEN \E fail \in FailChoices(H(0).n) :
                                          TurnAwaits("processAction", t, r, H(fail),
                                                     "afterHandler", Thrown(fail))
                                   ELSE \E rolls \in DodgeRolls(H(0).L.rs) :
                                          \E fail \in FailChoices(A(0, rolls).n) :
                                            TurnAwaits("processAction", t, r, A(fail, rolls),
                                                       "afterApply", Thrown(fail))

\* processAction resumes after the await of its handler (lines 255-310)
ResumeAfterHandler ==
  \E t \in Tasks :
    /\ tasks[t].pc = "afterHandler"
    /\ UNCHANGED <<floorVars, calls, passed>>
    /\ LET L == tasks[t].L
           r == L.run
       IN  IF tasks[t].err
           THEN TurnThrows("resume", t, r, Db, 0)
           ELSE \E rolls \in DodgeRolls(L.rs), fail \in FailChoices(1) :
                  TurnAwaits("resume", t, r, afterHandler(StepFrom(Db, L, fail), rolls),
                             "afterApply", Thrown(fail))

\* processAction resumes after the await of applyResults (lines 312-369)
ResumeAfterApply ==
  \E t \in Tasks :
    /\ tasks[t].pc = "afterApply"
    /\ UNCHANGED <<floorVars, calls, passed>>
    /\ LET L == tasks[t].L
           r == L.run
       IN  IF tasks[t].err
           THEN TurnThrows("resume", t, r, Db, 0)
           ELSE \E fail \in FailChoices(finishTurn(StepFrom(Db, L, 0)).n) :
                  LET X == finishTurn(StepFrom(Db, L, fail))
                  IN  IF X.err
                      THEN TurnThrows("resume", t, r, X.db, Thrown(fail))
                      ELSE TurnEnds("resume", t, r, X.db, "returned", 0)

(***************************************************************************)
(* Spec: calls made one after the other; SpecAsync: a call can be made      *)
(* while another is suspended at an await                                   *)
(***************************************************************************)
InitRun ==
  /\ fmap = <<>>
  /\ lastOp = [name |-> "none", room |-> 0, ret |-> <<>>, before |-> <<>>, final |-> FALSE]
  /\ opCount = 0
  /\ InitRunVars

StartRunSeq == NoTurnInFlight /\ StartRun

AbandonRunSeq == NoTurnInFlight /\ AbandonRun

ProcessActionSeq == NoTurnInFlight /\ ProcessAction

Next == StartRunSeq \/ AbandonRunSeq \/ ProcessActionSeq \/ ResumeAfterHandler \/ ResumeAfterApply

Spec == InitRun /\ [][Next]_vars

NextAsync == StartRun \/ AbandonRun \/ ProcessAction \/ ResumeAfterHandler \/ ResumeAfterApply

SpecAsync == InitRun /\ [][NextAsync]_vars

(***************************************************************************)
(* SpecDice: skillCheck applied to enumerated arguments and rolls           *)
(***************************************************************************)
\* no run, one character: the state the specifications of single functions keep
NoRunState ==
  /\ fmap = <<>>
  /\ opCount = 0
  /\ player = [hp_current |-> 10, hp_max |-> 10, gold |-> 0]
  /\ inv = [picks |-> 0, antidotes |-> 0, potions |-> 0, loot |-> [r \in 1..MaxRuns |-> 0]]
  /\ xp = [lockpicking |-> 0, perception |-> 0, stealth |-> 0, melee |-> 0]
  /\ runs = <<>>
  /\ floorMaps = <<>>
  /\ tasks = [t \in Tasks |-> IdleTask]
  /\ lastCall = [op |-> "init", outcome |-> "ok", task |-> 0, arg |-> 0]
  /\ calls = 0
  /\ passed = {}
  /\ failures = 0

\* combat.js getWeaponCritRange(equippedItems): item.base_crit_range || 20 of the
\* first weapon, 20 unarmed
RECURSIVE getWeaponCritRange(_)
getWeaponCritRange(equippedItems) ==
  IF equippedItems = <<>> THEN 20
  ELSE IF Head(equippedItems).item_type = "weapon"
  THEN IF Head(equippedItems).base_crit_range = 0 THEN 20
       ELSE Head(equippedItems).base_crit_range
  ELSE getWeaponCritRange(Tail(equippedItems))

\* the arguments skillCheck is applied to: stats within the schema's 3..18, crit
\* ranges within the schema's 1..20, the perception buffs as perks
DiceInputs ==
  [skillName : {"melee", "perception"},
   dc : {8, 10, 15},
   baseStats : { [strength |-> 9, dexterity |-> 10, wisdom |-> 18],
                 [strength |-> 13, dexterity |-> 10, wisdom |-> 3],
                 [strength |-> 10, dexterity |-> 18, wisdom |-> 10] },
   skillLevel : {0, 10, 45},
   equippedItems : { <<>>,
                     << [item_type |-> "armor", base_crit_range |-> 20],
                        [item_type |-> "weapon", base_crit_range |-> 19] >>,
                     << [item_type |-> "weapon", base_crit_range |-> 1] >> },
   perkBonuses : { <<>>, << [name |-> "Torch", effect |-> 3],
                            [name |-> "Glowing Fungus", effect |-> 1] >> },
   advantage : BOOLEAN,
   disadvantage : BOOLEAN,
   r1 : 1..20,
   r2 : {1, 12, 20}]

InitDice ==
  /\ lastOp \in { [name |-> "arguments", in |-> i, critRange |-> 0, ret |-> <<>>] :
                  i \in DiceInputs }
  /\ NoRunState

\* skillCheck(in), with the crit range processAttack passes (part_008:601-614)
SkillCheckOp ==
  /\ lastOp.name = "arguments"
  /\ LET i == lastOp.in
         critRange == getWeaponCritRange(i.equippedItems)
     IN  lastOp' = [name |-> "skillCheck", in |-> i, critRange |-> critRange,
                    ret |-> skillCheck(i.skillName, i.dc, i.baseStats, i.skillLevel,
                                       critRange, i.perkBonuses, i.advantage,
                                       i.disadvantage, i.r1, i.r2)]
  /\ UNCHANGED <<fmap, opCount>>
  /\ UNCHANGED runVars

NextDice == SkillCheckOp

SpecDice == InitDice /\ [][NextDice]_vars

\* the sum of the effects of a list of perks
RECURSIVE SumEffects(_)
SumEffects(perks) == IF perks = <<>> THEN 0 ELSE Head(perks).effect + SumEffects(Tail(perks))

\* C12: final_total = base roll + floor((governing stat - 10) / 2)
\* + floor(skill level / 10) + sum of perk effects; the base roll is the single
\* d20 in normal mode, the higher of two under advantage, the lower of two under
\* disadvantage.
C12_FinalTotal ==
  lastOp.name = "skillCheck" =>
    LET i == lastOp.in
        c == lastOp.ret
        governing == IF i.skillName = "melee" THEN i.baseStats.strength
                     ELSE i.baseStats.wisdom
        higher == IF i.r1 >= i.r2 THEN i.r1 ELSE i.r2
        lower == IF i.r1 <= i.r2 THEN i.r1 ELSE i.r2
    IN  /\ c.final_total = c.base_roll + ((governing - 10) \div 2) + (i.skillLevel \div 10)
                           + SumEffects(i.perkBonuses)
        /\ (~i.advantage /\ ~i.disadvantage) => c.base_roll = i.r1
        /\ (i.advantage /\ ~i.disadvantage) => c.base_roll = higher
        /\ (i.disadvantage /\ ~i.advantage) => c.base_roll = lower

\* a check under advantage that takes the second roll, with a negative stat
\* modifier, a skill bonus and perks
C12_Witness ==
  /\ lastOp.name = "skillCheck"
  /\ lastOp.in.advantage /\ ~lastOp.in.disadvantage
  /\ lastOp.in.r1 < lastOp.in.r2
  /\ lastOp.ret.base_roll = lastOp.in.r2
  /\ lastOp.ret.stat_modifier = -1
  /\ lastOp.ret.skill_bonus = 4
  /\ lastOp.ret.perk_total = 4
  /\ lastOp.ret.final_total = lastOp.in.r2 + 7

C14_NaturalRolls ==
  lastOp.name = "skillCheck" =>
    /\ lastOp.ret.base_roll = 20 => lastOp.ret.outcome = "critical_success"
    /\ lastOp.ret.base_roll = 1 => lastOp.ret.outcome = "critical_failure"

(***************************************************************************)
(* SpecLoot: resolveLoot applied to enumerated rule sets and contexts       *)
(***************************************************************************)
\* A nullable column or an optional field of the context is a sequence: <<>> when
\* it is NULL / undefined, <<v>> when it holds v.  The integer columns that the
\* code reads as `x || 0` hold 0 for NULL, which `||` does not tell apart.

\* loot.js checkCondition(rule, context)
checkCondition(rule, context) ==
  CASE rule.condition_type = "none" -> TRUE
    [] rule.condition_type = "min_skill" ->
         IF context.playerSkills = <<>> \/ rule.condition_skill_name = ""
         THEN FALSE
         ELSE /\ rule.condition_skill_name \in DOMAIN context.playerSkills[1]
              /\ context.playerSkills[1][rule.condition_skill_name]
                   >= rule.condition_skill_min
    [] rule.condition_type = "min_completions" ->
         context.dungeonCompletions >= rule.condition_min_completions
    [] rule.condition_type = "has_item" ->
         /\ context.playerItemIds # <<>>
         /\ rule.condition_requires_item_id \in context.playerItemIds[1]
    [] rule.condition_type = "has_not_item" ->
         ~ (/\ context.playerItemIds # <<>>
            /\ rule.condition_requires_item_id \in context.playerItemIds[1])
    [] OTHER -> TRUE

\* loot.js checkPerception(rule, context): context.perceptionLevel || 1 against
\* (rule.perception_dc || 10) - 5
checkPerception(rule, context) ==
  IF rule.requires_perception = 0 THEN TRUE
  ELSE LET perceptionLevel == IF context.perceptionLevel = 0 THEN 1
                              ELSE context.perceptionLevel
           dc == IF rule.perception_dc = <<>> THEN 10
                 ELSE IF rule.perception_dc[1] = 0 THEN 10
                 ELSE rule.perception_dc[1]
       IN  perceptionLevel >= dc - 5

\* loot.js makeDrop(rule, wasHidden)
makeDrop(rule, wasHidden) ==
  [item_id |-> rule.item_id, quantity |-> 1, was_hidden |-> wasHidden]

\* resolveLoot, the guaranteed rules (loot.js:30-38)
RECURSIVE guaranteedDrops(_, _)
guaranteedDrops(rules, context) ==
  IF rules = <<>> THEN <<>>
  ELSE LET rule == Head(rules)
           rest == guaranteedDrops(Tail(rules), context)
       IN  IF /\ rule.drop_type = "guaranteed"
              /\ checkCondition(rule, context)
              /\ ~ (rule.requires_perception # 0 /\ ~ checkPerception(rule, context))
           THEN <<makeDrop(rule, rule.requires_perception)>> \o rest
           ELSE rest

\* resolveLoot, the weighted rules that can be drawn (loot.js:41-45)
eligibleWeighted(rules, context) ==
  SelectSeq(rules, LAMBDA r : /\ r.drop_type = "weighted"
                              /\ checkCondition(r, context)
                              /\ ~ (r.requires_perception # 0
                                    /\ ~ checkPerception(r, context)))

\* resolveLoot, the pool of one draw (loot.js:51)
lootPool(eligible) == [k \in 1..Len(eligible) |->
                         [weight |-> eligible[k].base_weight, item |-> eligible[k]]]

RECURSIVE totalWeight(_)
totalWeight(pool) == IF pool = <<>> THEN 0 ELSE Head(pool).weight + totalWeight(Tail(pool))

\* dice.js weightedRandom with its null: <<>> when the total weight is not
\* positive; otherwise an entry of positive weight, or the first entry when
\* Math.random() returns 0
weightedRandomOrNull(pool) ==
  IF totalWeight(pool) <= 0 THEN { <<>> }
  ELSE { <<pool[i].item>> : i \in { j \in 1..Len(pool) : pool[j].weight > 0 \/ j = 1 } }

\* chests and bosses draw twice (loot.js:49)
rollCount(sourceType) == IF sourceType = "chest" \/ sourceType = "boss" THEN 2 ELSE 1

\* resolveLoot, the draws: a selected rule is added unless a drop of its item is
\* already in the list (loot.js:50-59)
RECURSIVE weightedDrops(_, _)
weightedDrops(drops, selected) ==
  IF selected = <<>> THEN drops
  ELSE LET s == Head(selected)
       IN  weightedDrops(
             IF s # <<>> /\ ~ \E k \in 1..Len(drops) : drops[k].item_id = s[1].item_id
             THEN Append(drops, makeDrop(s[1], s[1].requires_perception))
             ELSE drops,
             Tail(selected))

\* loot.js resolveLoot, for the rules getLootRulesForSource returned and the
\* results `selected` of its calls of weightedRandom
resolveLoot(sourceType, rules, context, selected) ==
  IF rules = <<>> THEN <<>>
  ELSE weightedDrops(guaranteedDrops(rules, context), selected)

\* the results the draws of one call can have: none when no weighted rule is
\* eligible, else rollCount of them from the same pool
lootSelections(sourceType, rules, context) ==
  LET eligible == eligibleWeighted(rules, context)
      results == weightedRandomOrNull(lootPool(eligible))
  IN  IF rules = <<>> \/ eligible = <<>> THEN { <<>> }
      ELSE IF rollCount(sourceType) = 2
      THEN { <<a, b>> : a \in results, b \in results }
      ELSE { <<a>> : a \in results }

\* the rows loot_rules can hold for one source (part_005:96-117): guaranteed,
\* weighted and never rules, every condition type, perception gates with a DC,
\* with DC 0 and with no DC, two rules of one item, a weight of 0
LootRule(item_id, drop_type, base_weight, condition_type, requires_perception, perception_dc) ==
  [item_id |-> item_id, drop_type |-> drop_type, base_weight |-> base_weight,
   condition_type |-> condition_type,
   condition_skill_name |-> IF condition_type = "min_skill" THEN "melee" ELSE "",
   condition_skill_min |-> IF condition_type = "min_skill" THEN 3 ELSE 0,
   condition_min_completions |-> IF condition_type = "min_completions" THEN 2 ELSE 0,
   condition_requires_item_id |-> IF condition_type \in {"has_item", "has_not_item"}
                                  THEN 9 ELSE 0,
   requires_perception |-> requires_perception, perception_dc |-> perception_dc]

LootRules ==
  << LootRule(1, "guaranteed", 0, "none", 0, <<>>),
     LootRule(1, "guaranteed", 0, "none", 1, <<0>>),
     LootRule(2, "guaranteed", 0, "min_skill", 1, <<16>>),
     LootRule(3, "guaranteed", 0, "has_item", 0, <<>>),
     LootRule(4, "guaranteed", 0, "has_not_item", 0, <<>>),
     LootRule(5, "guaranteed", 0, "min_completions", 1, <<>>),
     LootRule(1, "weighted", 30, "none", 0, <<>>),
     LootRule(6, "weighted", 10, "none", 1, <<16>>),
     LootRule(7, "weighted", 0, "none", 0, <<>>),
     LootRule(8, "never", 5, "none", 0, <<>>) >>

MaxRules == 4

\* the rules of LootRules at the positions of S, in their order
RECURSIVE RulesAt(_, _)
RulesAt(S, k) ==
  IF k > Len(LootRules) THEN <<>>
  ELSE (IF k \in S THEN <<LootRules[k]>> ELSE <<>>) \o RulesAt(S, k + 1)

LootInputs ==
  [sourceType : {"chest", "boss", "enemy_kill"},
   rules : { RulesAt(S, 1) : S \in { T \in SUBSET (1..Len(LootRules)) :
                                      Cardinality(T) <= MaxRules } },
   context : [playerSkills : { <<>>, <<[melee |-> 2]>>, <<[melee |-> 3]>> },
              dungeonCompletions : {0, 2},
              playerItemIds : { <<>>, <<{}>>, <<{9}>> },
              perceptionLevel : {0, 3, 11}]]

InitLoot ==
  /\ lastOp \in { [name |-> "arguments", in |-> i, ret |-> <<>>] : i \in LootInputs }
  /\ NoRunState

\* resolveLoot(in.sourceType, sourceId, in.context) with in.rules the rules of the
\* source
ResolveLootOp ==
  /\ lastOp.name = "arguments"
  /\ LET i == lastOp.in
     IN  \E selected \in lootSelections(i.sourceType, i.rules, i.context) :
           lastOp' = [name |-> "resolveLoot", in |-> i,
                      ret |-> resolveLoot(i.sourceType, i.rules, i.context, selected)]
  /\ UNCHANGED <<fmap, opCount>>
  /\ UNCHANGED runVars

NextLoot == ResolveLootOp

SpecLoot == InitLoot /\ [][NextLoot]_vars

\* the condition of a rule, on a context: the skill minimum against the level of
\* the named skill, the completion minimum, the item owned or not owned
ConditionHolds(rule, context) ==
  LET owned == IF context.playerItemIds = <<>> THEN {} ELSE context.playerItemIds[1]
      skills == IF context.playerSkills = <<>> THEN << >> ELSE context.playerSkills[1]
  IN  /\ rule.condition_type = "min_skill" =>
           /\ rule.condition_skill_name \in DOMAIN skills
           /\ skills[rule.condition_skill_name] >= rule.condition_skill_min
      /\ rule.condition_type = "min_completions" =>
           context.dungeonCompletions >= rule.condition_min_completions
      /\ rule.condition_type = "has_item" => rule.condition_requires_item_id \in owned
      /\ rule.condition_type = "has_not_item" =>
           rule.condition_requires_item_id \notin owned

\* the perception gate of a rule: level >= DC - 5, with level 1 when the context
\* gives none and DC 10 when the rule gives none
GateMet(rule, context) ==
  rule.requires_perception # 0 =>
    (IF context.perceptionLevel = 0 THEN 1 ELSE context.perceptionLevel)
      >= (IF rule.perception_dc = <<>> THEN 10 ELSE rule.perception_dc[1]) - 5

\* the guaranteed rules of in.rules that fire
FiringRules(in) ==
  { k \in 1..Len(in.rules) : /\ in.rules[k].drop_type = "guaranteed"
                             /\ ConditionHolds(in.rules[k], in.context)
                             /\ GateMet(in.rules[k], in.context) }

\* C15: for every rule set and context, resolveLoot returns a drop for each
\* guaranteed rule whose condition holds and whose perception gate, if it has
\* one, is met: the returned list holds at least as many drops of an item as
\* there are such rules of that item.
C15_GuaranteedRulesFire ==
  lastOp.name = "resolveLoot" =>
    \A k \in FiringRules(lastOp.in) :
      Cardinality({ d \in 1..Len(lastOp.ret) :
                     lastOp.ret[d].item_id = lastOp.in.rules[k].item_id })
        >= Cardinality({ j \in FiringRules(lastOp.in) :
                          lastOp.in.rules[j].item_id = lastOp.in.rules[k].item_id })

\* the drops of ret that the weighted draws added: those after the guaranteed ones
WeightedReturned(op) ==
  SubSeq(op.ret, Len(guaranteedDrops(op.in.rules, op.in.context)) + 1, Len(op.ret))

\* C16: for every rule set, one resolveLoot call for a chest or boss source
\* returns at most 2 items drawn from the weighted pool and no item identifier
\* appears twice in the returned list; for any other source at most 1 weighted
\* item is returned.
C16_WeightedDrawsDistinct ==
  lastOp.name = "resolveLoot" =>
    /\ lastOp.in.sourceType \in {"chest", "boss"} => Len(WeightedReturned(lastOp)) <= 2
    /\ lastOp.in.sourceType \notin {"chest", "boss"} => Len(WeightedReturned(lastOp)) <= 1
    /\ \A a, b \in 1..Len(lastOp.ret) :
         a # b => lastOp.ret[a].item_id # lastOp.ret[b].item_id

(***************************************************************************)
(* SpecCombat: damageEnemy applied to enumerated room states                *)
(***************************************************************************)
MaxEnemies == 3

\* the enemies a room state can hold: alive with some hp, or dead with hp 0
CombatEnemies ==
  { [name |-> "Crypt Rat", hp_current |-> hp, armor |-> armor, is_dead |-> (hp = 0)] :
      hp \in {0, 3, 12}, armor \in {0, 2} }

\* the calls processAttack makes (part_008:581-625): the target is a living
\* element of run.room_state.enemies and combat has been made active; the
\* damage is 5 + stat / 3 rounded plus the weapon bonus, the resistance in
\* hundredths one of the seeded multipliers or 100
CombatInputs ==
  { [roomState |-> [is_combat_active |-> TRUE, round_number |-> 1, enemies |-> es],
     k |-> k, damage |-> damage, resistance |-> resistance] :
      es \in UNION { [1..n -> CombatEnemies] : n \in 1..MaxEnemies },
      k \in 1..MaxEnemies, damage \in {6, 11, 14}, resistance \in {0, 50, 100, 150} }

InitCombat ==
  /\ lastOp \in { [name |-> "arguments", in |-> i, ret |-> <<>>] :
                  i \in { c \in CombatInputs : /\ c.k <= Len(c.roomState.enemies)
                                               /\ ~c.roomState.enemies[c.k].is_dead } }
  /\ NoRunState

\* damageEnemy(in.roomState.enemies[in.k], in.damage, damageType, player, in.roomState)
DamageEnemyOp ==
  /\ lastOp.name = "arguments"
  /\ LET i == lastOp.in
     IN  lastOp' = [name |-> "damageEnemy", in |-> i,
                    ret |-> damageEnemy(i.k, i.damage, i.resistance, i.roomState)]
  /\ UNCHANGED <<fmap, opCount>>
  /\ UNCHANGED runVars

NextCombat == DamageEnemyOp

SpecCombat == InitCombat /\ [][NextCombat]_vars

\* C17: when damageEnemy kills an enemy, the combat flag of the room state is
\* cleared exactly when every enemy of the room state is then dead, so a kill
\* that leaves another enemy alive leaves combat active; a hit that does not
\* kill leaves the flag as it was.
C17_CombatEndsWhenAllDead ==
  lastOp.name = "damageEnemy" =>
    LET before == lastOp.in.roomState
        after == lastOp.ret.roomState
        everyDead == \A j \in 1..Len(after.enemies) : after.enemies[j].is_dead
    IN  /\ lastOp.ret.enemyDied <=> after.enemies[lastOp.in.k].is_dead
        /\ lastOp.ret.enemyDied => (~after.is_combat_active <=> everyDead)
        /\ (lastOp.ret.enemyDied /\ ~everyDead) => after.is_combat_active
        /\ ~lastOp.ret.enemyDied => after.is_combat_active = before.is_combat_active

\* a kill in a room where an enemy killed earlier lies dead and another still
\* lives: combat stays active
C17_Witness ==
  /\ lastOp.name = "damageEnemy"
  /\ lastOp.ret.enemyDied
  /\ Len(lastOp.in.roomState.enemies) = 3
  /\ \E j \in 1..3 : lastOp.in.roomState.enemies[j].is_dead
  /\ \E j \in 1..3 : ~lastOp.ret.roomState.enemies[j].is_dead
  /\ lastOp.ret.roomState.is_combat_active

(***************************************************************************)
(* SpecApply: the transaction of applyResults, turn after turn, on an       *)
(* inventory kept row by row                                                *)
(***************************************************************************)
\* items rows: a stackable consumable, a weapon, a quest item, a stackable quest
\* item (part_005:36-52)
Items ==
  << [name |-> "Health Potion", is_stackable |-> TRUE, is_quest_item |-> FALSE],
     [name |-> "Crypt Warden's Mace", is_stackable |-> FALSE, is_quest_item |-> FALSE],
     [name |-> "Warden's Sigil", is_stackable |-> FALSE, is_quest_item |-> TRUE],
     [name |-> "Skeleton Key Fragment", is_stackable |-> TRUE, is_quest_item |-> TRUE] >>

\* the run in progress; run 1 ended earlier, 0 stands for NULL
ThisRun == 2

\* queries.addItem(playerId, itemId, quantity, runId) on the table t = [rows,
\* nextId]: the table afterwards and the id of the row returned
addItem(t, itemId, quantity, runId) ==
  LET existing == { row \in t.rows : row.item_id = itemId /\ Items[itemId].is_stackable }
  IN  IF existing # {}
      THEN LET e == CHOOSE row \in existing : \A o \in existing : row.id <= o.id
           IN  [rows |-> (t.rows \ {e}) \cup {[e EXCEPT !.quantity = @ + quantity]},
                nextId |-> t.nextId, id |-> e.id]
      ELSE [rows |-> t.rows \cup {[id |-> t.nextId, item_id |-> itemId,
                                   quantity |-> quantity, acquired_in_run_id |-> runId]},
            nextId |-> t.nextId + 1, id |-> t.nextId]

\* queries.removeItem(inventoryRowId, quantity)
removeItem(rows, inventoryRowId, quantity) ==
  IF ~ \E row \in rows : row.id = inventoryRowId THEN rows
  ELSE LET row == CHOOSE x \in rows : x.id = inventoryRowId
       IN  IF row.quantity <= quantity THEN rows \ {row}
           ELSE (rows \ {row}) \cup {[row EXCEPT !.quantity = @ - quantity]}

\* removeItem(row.id, row.quantity) for every row of S
RECURSIVE removeRows(_, _)
removeRows(rows, S) ==
  IF S = {} THEN rows
  ELSE LET row == CHOOSE x \in S : TRUE
       IN  removeRows(removeItem(rows, row.id, row.quantity), S \ {row})

\* handlePlayerDeath: the rows of the run that are not quest items
runItems(rows, runId) ==
  { i \in rows : i.acquired_in_run_id = runId /\ ~Items[i.item_id].is_quest_item }

\* handlePlayerDeath: the sets of rows the shuffle can put first
shuffledFirst(rows, runId) ==
  LET n == Cardinality(runItems(rows, runId))
      loseCount == (n + 1) \div 2
  IN  { S \in SUBSET runItems(rows, runId) : Cardinality(S) = loseCount }

\* handlePlayerDeath(playerId, runId), lost the rows the shuffle put first
handlePlayerDeath(rows, runId, lost) ==
  LET rows1 == removeRows(rows, lost)
      questItems == { i \in rows1 : i.acquired_in_run_id = runId
                                    /\ Items[i.item_id].is_quest_item }
  IN  removeRows(rows1, questItems)

\* the loot loop of applyResults (part_008:1270-1273): the table afterwards,
\* with ids the set of row ids addItem returned
RECURSIVE addDrops(_, _, _, _)
addDrops(t, ids, lootDrops, runId) ==
  IF lootDrops = <<>> THEN [rows |-> t.rows, nextId |-> t.nextId, ids |-> ids]
  ELSE LET a == addItem(t, Head(lootDrops).item_id, Head(lootDrops).quantity, runId)
       IN  addDrops(a, ids \cup {a.id}, Tail(lootDrops), runId)

\* applyResults(result, run, player, ...), with p the players row read when the
\* turn began, db = [player, inv, runs] what is stored, lost the rows the
\* shuffle of handlePlayerDeath put first; result.runComplete is false at the
\* call (it is set nowhere else)
applyResults(db, p, result, dungeon, lost) ==
  LET hp1 == IF result.hpChange # 0 THEN newHpOf(p, result.hpChange)
             ELSE db.player.hp_current
      gold1 == IF result.goldGained > 0 THEN db.player.gold + result.goldGained
               ELSE db.player.gold
      t1 == addDrops(db.inv, {}, result.lootDrops, ThisRun)
      goldLoss == (p.gold * 25) \div 100
      rows2 == IF result.runDied THEN handlePlayerDeath(t1.rows, ThisRun, lost) ELSE t1.rows
      gold2 == IF result.runDied THEN Max2(0, gold1 - goldLoss) ELSE gold1
      hp2 == IF result.runDied THEN 1 ELSE hp1
      status2 == IF result.runDied THEN "dead" ELSE db.runs[ThisRun].status
      completes == result.bossKilled /\ dungeon.completion = "boss_killed"
  IN  [player |-> [hp_current |-> IF completes THEN db.player.hp_max ELSE hp2,
                   hp_max |-> db.player.hp_max,
                   gold |-> IF completes
                            THEN gold2 + 50 + dungeon.difficulty_tier * 25 ELSE gold2],
       inv |-> [rows |-> rows2, nextId |-> t1.nextId],
       runs |-> [db.runs EXCEPT ![ThisRun].status = IF completes THEN "completed"
                                                   ELSE status2],
       mid |-> t1.rows, ids |-> t1.ids]

MaxTurns == 2

\* what a turn can hand to applyResults: damage and healing below and beyond
\* the hit points, gold, up to two drops, death, a boss lying dead in the room
ResultInputs ==
  [hpChange : {-30, -3, 0, 30},
   goldGained : {0, 7},
   lootDrops : { <<>>, <<[item_id |-> 1, quantity |-> 1]>>,
                 <<[item_id |-> 2, quantity |-> 1]>>, <<[item_id |-> 3, quantity |-> 1]>>,
                 <<[item_id |-> 4, quantity |-> 1]>>,
                 <<[item_id |-> 1, quantity |-> 1], [item_id |-> 2, quantity |-> 1]>>,
                 <<[item_id |-> 2, quantity |-> 1], [item_id |-> 2, quantity |-> 1]>>,
                 <<[item_id |-> 3, quantity |-> 1], [item_id |-> 1, quantity |-> 1]>> },
   runDied : BOOLEAN,
   bossKilled : BOOLEAN]

\* the inventories a run can begin with: empty; the Health Potion of character
\* creation (part_001:726-727); a weapon and a stack of quest items kept from
\* run 1
StartInventories ==
  { [rows |-> {}, nextId |-> 1],
    [rows |-> {[id |-> 1, item_id |-> 1, quantity |-> 1, acquired_in_run_id |-> 0]},
     nextId |-> 2],
    [rows |-> {[id |-> 1, item_id |-> 2, quantity |-> 1, acquired_in_run_id |-> 1],
               [id |-> 2, item_id |-> 4, quantity |-> 1, acquired_in_run_id |-> 1]},
     nextId |-> 3] }

InitApply ==
  /\ fmap = <<>>
  /\ opCount = 0
  /\ player \in { [hp_current |-> 4, hp_max |-> 10, gold |-> 25],
                   [hp_current |-> 10, hp_max |-> 10, gold |-> 25] }
  /\ inv \in StartInventories
  /\ xp = [lockpicking |-> 0, perception |-> 0, stealth |-> 0, melee |-> 0]
  /\ runs = << [status |-> "completed", dungeon |-> 1], [status |-> "active", dungeon |-> 1] >>
  /\ lastOp = [name |-> "startRun", in |-> <<>>, before |-> {}, mid |-> {}, gained |-> {}]
  /\ floorMaps = <<>>
  /\ tasks = [t \in Tasks |-> IdleTask]
  /\ lastCall = [op |-> "init", outcome |-> "ok", task |-> 0, arg |-> 0]
  /\ calls = 0
  /\ passed = {}
  /\ failures = 0

\* one turn of the run in progress, as far as it reaches the database through
\* applyResults; lastOp keeps the rows before the turn, the rows after its loot
\* was added, and the ids of the rows that have taken a drop of this run
ApplyResultsOp ==
  /\ opCount < MaxTurns
  /\ runs[ThisRun].status = "active"
  /\ \E result \in ResultInputs :
       \E lost \in shuffledFirst(addDrops(inv, {}, result.lootDrops, ThisRun).rows, ThisRun) :
         LET db == applyResults([player |-> player, inv |-> inv, runs |-> runs], player,
                                result, Dungeons[runs[ThisRun].dungeon], lost)
         IN  /\ player' = db.player
             /\ inv' = db.inv
             /\ runs' = db.runs
             /\ lastOp' = [name |-> "applyResults", in |-> result, before |-> inv.rows,
                           mid |-> db.mid, gained |-> lastOp.gained \cup db.ids]
  /\ opCount' = opCount + 1
  /\ UNCHANGED <<fmap, xp, floorMaps, tasks, lastCall, calls, passed, failures>>

NextApply == ApplyResultsOp

SpecApply == InitApply /\ [][NextApply]_vars

\* C18: after any sequence of turns the stored hp_current is between 0 and
\* hp_max inclusive, whatever damage and healing the turns applied.
C18_HpWithinBounds == player.hp_current >= 0 /\ player.hp_current <= player.hp_max

\* a second turn whose healing of 30 would pass hp_max and is stored as hp_max
C18_Witness ==
  /\ lastOp.name = "applyResults"
  /\ opCount = 2
  /\ lastOp.in.hpChange = 30 /\ ~lastOp.in.runDied /\ ~lastOp.in.bossKilled
  /\ player.hp_current = player.hp_max
  /\ runs[ThisRun].status = "active"

\* the rows of lastOp.mid that hold something acquired during this run: those
\* that took a drop of one of its turns, the last turn included
AcquiredThisRun == { row \in lastOp.mid : row.id \in lastOp.gained }

\* the rows the last turn's death handling removed
RemovedOnDeath == { row \in lastOp.mid : ~ \E x \in inv.rows : x.id = row.id }

\* C19: when a turn ends in the player's death, exactly ceil(n/2) of the n
\* non-quest inventory entries acquired during this run, those gained in the
\* fatal turn included, are removed, every quest item acquired during this run
\* is removed, and no entry acquired outside this run is removed or changed.
C19_DeathRemovesHalfOfRunItems ==
  (lastOp.name = "applyResults" /\ lastOp.in.runDied) =>
    LET nonQuest == { row \in AcquiredThisRun : ~Items[row.item_id].is_quest_item }
        quest == { row \in AcquiredThisRun : Items[row.item_id].is_quest_item }
    IN  /\ Cardinality(RemovedOnDeath \cap nonQuest) = (Cardinality(nonQuest) + 1) \div 2
        /\ quest \subseteq RemovedOnDeath
        /\ \A row \in lastOp.mid \ AcquiredThisRun : row \in inv.rows

(***************************************************************************)
(* Properties of the run lifecycle and of the turn                          *)
(***************************************************************************)
\* the runs that hold the character's slot
OpenRuns == { r \in 1..Len(runs) : runs[r].status \in {"active", "processing"} }

Terminal == {"completed", "dead", "abandoned"}

\* the callers that are resolving a turn of run r
TurnsInFlight(r) == { t \in Tasks : tasks[t].pc # "idle" /\ tasks[t].L.run = r }

\* C1: a processAction call that finds the run's persisted status `processing` is
\* rejected with an error and changes nothing: the run's status, pending action,
\* room state, the floor maps, and the player's HP, gold and inventory are as before.
C1_ProcessingRunRejected ==
  [][(/\ lastCall'.op = "processAction"
      /\ lastCall'.arg # 0
      /\ runs[lastCall'.arg].status = "processing")
     => (lastCall'.outcome = "rejected" /\ UNCHANGED dbVars)]_vars

C1_Witness ==
  /\ lastCall.op = "processAction"
  /\ lastCall.outcome = "rejected"
  /\ lastCall.arg # 0
  /\ runs[lastCall.arg].status = "processing"
  /\ runs[lastCall.arg].pending

\* C2: however two action requests on one run interleave, no two turns of the run
\* are being resolved at the same time, and a request that arrives while a turn of
\* the run is being resolved is rejected and changes nothing.
C2_OneTurnPerRun ==
  [][/\ \A r \in 1..Len(runs') : Cardinality(TurnsInFlight(r)') <= 1
     /\ \A r \in 1..Len(runs) :
          (/\ TurnsInFlight(r) # {}
           /\ lastCall'.op = "processAction"
           /\ lastCall'.arg = r)
          => (lastCall'.outcome = "rejected" /\ UNCHANGED dbVars)]_vars

C2_Witness ==
  /\ lastCall.op = "processAction"
  /\ lastCall.outcome = "rejected"
  /\ lastCall.arg # 0
  /\ TurnsInFlight(lastCall.arg) # {}

\* C3: once a run's status is completed, dead or abandoned, no later operation and
\* no later step of the turn that ended it changes that status, whatever the
\* persistence calls that follow do.
C3_TerminalStatusFinal ==
  [][\A r \in 1..Len(runs) :
       runs[r].status \in Terminal => runs'[r].status = runs[r].status]_vars

\* C4: when a persistence call fails during a turn, the turn is undone as a whole:
\* as processAction throws, the run is active and the player's HP and gold, the
\* inventory with its lockpicks, the skill XP, the floor maps and the run's current
\* floor and room are what they were before the action.
C4_FailedTurnUndone ==
  [][(lastCall'.op = "resume" /\ lastCall'.outcome = "threw")
     => LET r == lastCall'.arg
            snap == tasks[lastCall'.task].L.snap
        IN  /\ runs'[r].status = "active"
            /\ player' = snap.player
            /\ inv' = snap.inv
            /\ xp' = snap.xp
            /\ floorMaps' = snap.maps
            /\ runs'[r].current_floor = snap.runs[r].current_floor
            /\ runs'[r].current_room = snap.runs[r].current_room]_vars

\* C5: every turn that took the lock releases it: when processAction returns or
\* throws after setting the status to processing, the run's persisted status is not
\* processing and the pending action text is cleared.
C5_LockReleased ==
  (lastCall.op = "resume" /\ lastCall.outcome \in {"returned", "threw"})
  => (runs[lastCall.arg].status # "processing" /\ ~runs[lastCall.arg].pending)

\* C6: after any sequence of startRun, processAction and abandonRun calls the
\* character has at most one run whose status is active or processing.
C6_AtMostOneOpenRun == Cardinality(OpenRuns) <= 1

C6_Witness ==
  /\ Len(runs) = 2
  /\ runs[1].status \in Terminal
  /\ OpenRuns = {2}
  /\ lastCall.op = "startRun"
  /\ lastCall.outcome = "ok"

\* C7: startRun is rejected, deducts no gold and creates no run and no floor map
\* when the character has an active or processing run or has less gold than the
\* dungeon's entry cost; entering a dungeon never leaves the gold negative.
C7_StartRunRejected ==
  [][lastCall'.op = "startRun"
     => /\ (OpenRuns # {} \/ player.gold < Dungeons[lastCall'.arg].entry_cost)
           => (lastCall'.outcome = "rejected" /\ UNCHANGED dbVars)
        /\ player'.gold >= 0]_vars

C7_Witness ==
  /\ lastCall.op = "startRun"
  /\ lastCall.outcome = "rejected"
  /\ OpenRuns = {}
  /\ player.gold < Dungeons[lastCall.arg].entry_cost
  /\ player.gold >= 0
  /\ Len(runs) = Len(floorMaps)

\* C9: after any sequence of moves, room clears and skill checks, a room of type
\* locked is accessible only if a lockpicking check against that room's lock has
\* passed; a cleared room's locked neighbour stays inaccessible until then.
C9_LockedNeedsLockpick ==
  \A r \in 1..Len(floorMaps) : \A f \in 1..Len(floorMaps[r]) :
    \A k \in 1..Len(floorMaps[r][f]) :
      LET room == floorMaps[r][f][k]
      IN  (room.type = "locked" /\ room.is_accessible)
          => <<r, f, room.room_number>> \in passed

\* a locked room that a passed check has opened, on a floor where a move has
\* cleared a room
C9_Witness ==
  \E r \in 1..Len(floorMaps) : \E f \in 1..Len(floorMaps[r]) :
    LET floorMap == floorMaps[r][f]
    IN  /\ \E k \in 1..Len(floorMap) : floorMap[k].is_cleared
        /\ \E k \in 1..Len(floorMap) :
             /\ floorMap[k].type = "locked"
             /\ floorMap[k].is_accessible
             /\ floorMap[k].lock.is_picked
             /\ <<r, f, floorMap[k].room_number>> \in passed

\* C20: when a move enters the exit room of floor f and f is not the last floor
\* of the dungeon, the turn stores a generated map for floor f+1 and leaves it as
\* generated, puts the run on floor f+1 in room 1 with the room state built from
\* the new room 1, and the narration context holds the entry of this turn only,
\* none of those it held before; a turn that does not change floor never leaves
\* the run in an exit room.
C20_ExitMoveStartsNextFloor ==
  [][(lastCall'.op = "resume" /\ lastCall'.outcome = "returned")
     => LET L == tasks[lastCall'.task].L
            r == lastCall'.arg
            f == L.snap.runs[r].current_floor
            dungeon == Dungeons[runs[r].dungeon]
        IN  /\ L.floorTransition =>
                 /\ L.intent = "move" /\ f < dungeon.floor_count
                 /\ Len(floorMaps'[r]) = f + 1
                 /\ floorMaps'[r][f + 1] \in generateFloor(dungeon, f + 1,
                                               f + 1 = dungeon.floor_count, EnemyRules, RndRun)
                 /\ runs'[r].current_floor = f + 1
                 /\ runs'[r].current_room = 1
                 /\ runs'[r].room_state =
                      [is_combat_active |-> FALSE,
                       enemies |-> floorMaps'[r][f + 1][RoomByNumber(floorMaps'[r][f + 1], 1)].enemies]
                 /\ runs'[r].ctx = <<[role |-> "user"]>>
            /\ ~L.floorTransition =>
                 /\ runs'[r].current_floor = f
                 /\ ~floorMaps'[r][f][RoomByNumber(floorMaps'[r][f], runs'[r].current_room)].is_exit]_vars

\* the second turn of a run moved into the exit room of floor 1 of the dungeon
\* of two floors: the run is in room 1 of floor 2, whose map is stored, and the
\* context, which held the entry of the first turn, holds one entry
C20_Witness ==
  /\ lastCall.op = "resume" /\ lastCall.outcome = "returned"
  /\ calls = 3 /\ failures = 0 /\ Len(runs) = 1
  /\ runs[1].status = "active"
  /\ runs[1].current_floor = 2 /\ runs[1].current_room = 1
  /\ Len(floorMaps[1]) = 2
  /\ runs[1].run_stats.rooms_cleared = 2
  /\ runs[1].ctx = <<[role |-> "user"]>>

(***************************************************************************)
(* SpecTurn: whole turns of processAction, one after the other, on a run    *)
(* of the one-floor dungeon whose rooms hold a poisonous enemy, a locked    *)
(* chest, a trap, a locked room and a boss with one add                     *)
(***************************************************************************)
\* turns taken in one behaviour
MaxTurnCalls == 3

\* enemy_rules joined with enemies: the Venomous Spider (its Venomous Bite
\* poisons, here for 2 actions) and the boss
TurnEnemyRules ==
  << [enemy_id |-> 3, enemy_name |-> "Venomous Spider", base_hp |-> 6, base_damage |-> 4,
      base_armor |-> 0, is_boss |-> 0, spawn_weight |-> 25, xp_reward |-> 18,
      gold_reward_min |-> 2, gold_reward_max |-> 2, base_dc |-> 11,
      effect |-> [present |-> TRUE, status |-> "poison", duration_actions |-> 2]],
     [enemy_id |-> 2, enemy_name |-> "The Hollow Warden", base_hp |-> 8, base_damage |-> 5,
      base_armor |-> 2, is_boss |-> 1, spawn_weight |-> 0, xp_reward |-> 75,
      gold_reward_min |-> 25, gold_reward_max |-> 25, base_dc |-> 12, effect |-> NoEffect] >>

\* the smallest room count, a branch wherever one can be drawn, an enemy in
\* every standard room, a locked chest in every treasure room, one add
RndTurn ==
  [roll3 |-> {1}, types |-> {"standard", "treasure", "trap", "locked"}, branch |-> {TRUE},
   enemyChance |-> {TRUE}, trapEnemyChance |-> {FALSE}, enemyCount |-> {0},
   bossAdds |-> {1}, trapIdx |-> {5}, chestChance |-> {FALSE}, chestLocked |-> {TRUE},
   restHeal |-> {20}]

\* the characters a run of SpecTurn is played with
TurnCharacters ==
  { [hp_current |-> 10, hp_max |-> 10, gold |-> 15, picks |-> 1, antidotes |-> 1],
    [hp_current |-> 10, hp_max |-> 10, gold |-> 15, picks |-> 0, antidotes |-> 0] }

\* the d20 values of the player's own checks: a failure, a partial success, a
\* success and a natural 20 against DC 12
TurnDice == {6, 11, 15, 20}

TurnTexts == {"general", "attack", "attack spider", "flee", "move", "lockpick", "use antidote"}

\* the state startRun(playerId, 1) leaves
InitTurn ==
  /\ fmap = <<>>
  /\ lastOp = [name |-> "none", room |-> 0, ret |-> <<>>, before |-> <<>>, final |-> FALSE]
  /\ opCount = 0
  /\ \E c \in TurnCharacters :
       /\ player = [hp_current |-> c.hp_current, hp_max |-> c.hp_max, gold |-> c.gold]
       /\ inv = [picks |-> c.picks, antidotes |-> c.antidotes, potions |-> 0,
                 loot |-> [r \in 1..MaxRuns |-> 0]]
  /\ xp = [lockpicking |-> 0, perception |-> 0, stealth |-> 0, melee |-> 0]
  /\ \E floorMap \in generateFloor(Dungeons[1], 1, TRUE, TurnEnemyRules, RndTurn) :
       /\ runs = << [createRun(1) EXCEPT
                       !.room_state = buildRoomState(floorMap[getCurrentRoom(floorMap, 1)])] >>
       /\ floorMaps = << <<floorMap>> >>
  /\ tasks = [t \in Tasks |-> IdleTask]
  /\ lastCall = [op |-> "startRun", outcome |-> "ok", task |-> 0, arg |-> 1,
                 entryChecks |-> {}]
  /\ calls = 0
  /\ passed = {}
  /\ failures = 0

\* the record of a turn that returned: the text, intent.targetRoom (0: none), the
\* values processAction held when the handler was called (T), when it had
\* returned (H) and at the end (L), and the rooms whose trap check on entry has
\* been rolled in the run so far
TurnRecord(r, text, targetRoom, baseRoll, T, H, L) ==
  [op |-> "processAction", outcome |-> "returned", task |-> 1, arg |-> r,
   text |-> text, targetRoom |-> targetRoom, roll |-> baseRoll, T |-> T, H |-> H, L |-> L,
   entryChecks |-> IF L.intent = "move" /\ L.checks # <<>>
                   THEN lastCall.entryChecks \cup {L.cur_room}
                   ELSE lastCall.entryChecks]

\* processAction lines 147-202 on database db: the values held when the handler
\* is called
turnLocals(db, r, text) ==
  LET floorMap == db.maps[r][db.runs[r].current_floor]
      room == floorMap[getCurrentRoom(floorMap, db.runs[r].current_room)]
      intent == classifyIntent(text, room, db.runs[r].room_state)
  IN  tickStatusEffects([TurnLocals(lockRun(db, r), r, intent, db) EXCEPT
                           !.target = intentTarget(intent, text, db.runs[r].room_state),
                           !.raw = text])

\* lines 206-253: the handler has returned; heal is the amount a Health Potion
\* rolls
turnHandledWith(db, r, T, targetRoom, baseRoll, heal) ==
  runHandler(StepFrom(lockRun(db, r), T, 0), targetRoom, baseRoll,
             Dungeons[db.runs[r].dungeon].dc_range.min, 0, <<>>, heal)

turnHandled(db, r, T, targetRoom, baseRoll) == turnHandledWith(db, r, T, targetRoom, baseRoll, 10)

\* lines 255-369: processAction returns
turnEnd(H, rolls) == finishTurn(afterHandler(H, rolls))

\* the databases a whole turn can leave
TurnResults(db, r, text, targetRoom, dice) ==
  UNION { { turnEnd(H, rolls).db : rolls \in DodgeRolls(H.L.rs) } :
            H \in { turnHandled(db, r, turnLocals(db, r, text), targetRoom, b) : b \in dice } }

\* the room numbers a move text can name
TargetRooms(db, r) ==
  LET floorMap == db.maps[r][db.runs[r].current_floor]
  IN  0..Len(floorMap)

\* processAction(playerId, actionText) from call to return, no call throwing
TurnStep(r, text, T, dice) ==
  \E targetRoom \in (IF T.intent = "move" THEN TargetRooms(Db, r) ELSE {0}),
     baseRoll \in (IF T.intent \in AwaitedIntents THEN dice ELSE {0}) :
    \E H \in { turnHandled(Db, r, T, targetRoom, baseRoll) } :
      \E rolls \in DodgeRolls(H.L.rs) :
        \E X \in { turnEnd(H, rolls) } :
          /\ SetDb(X.db)
          /\ lastCall' = TurnRecord(r, text, targetRoom, baseRoll, T, H.L, X.L)

\* a turn of the active run on one of the texts, its d20 one of dice, while fewer
\* than maxCalls turns have been taken
TurnOn(maxCalls, texts, dice) ==
  /\ calls < maxCalls
  /\ calls' = calls + 1
  /\ UNCHANGED <<floorVars, tasks, passed, failures>>
  /\ \E r \in getActiveRun(runs) :
       /\ ~runNotActive(runs[r])
       /\ \E text \in texts : TurnStep(r, text, turnLocals(Db, r, text), dice)

TurnWithin(maxCalls) == TurnOn(maxCalls, TurnTexts, TurnDice)

Turn == TurnWithin(MaxTurnCalls)

NextTurn == Turn

SpecTurn == InitTurn /\ [][NextTurn]_vars

(***************************************************************************)
(* SpecBoss: whole turns of a run that has reached the boss room            *)
(***************************************************************************)
\* turns taken in the boss room in one behaviour
MaxBossTurns == 2

\* standard rooms only
RndBoss == [RndTurn EXCEPT !.types = {"standard"}]

\* the databases startRun(playerId, 1) can leave for character c
StartedRuns(c) ==
  { [player |-> [hp_current |-> c.hp_current, hp_max |-> c.hp_max, gold |-> c.gold],
     inv |-> [picks |-> c.picks, antidotes |-> c.antidotes, potions |-> 0, loot |-> [r \in 1..MaxRuns |-> 0]],
     xp |-> [lockpicking |-> 0, perception |-> 0, stealth |-> 0, melee |-> 0],
     runs |-> << [createRun(1) EXCEPT
                    !.room_state = buildRoomState(floorMap[getCurrentRoom(floorMap, 1)])] >>,
     maps |-> << <<floorMap>> >>] :
    floorMap \in generateFloor(Dungeons[1], 1, TRUE, TurnEnemyRules, RndBoss) }

\* the databases after the turns "move to room 2", "move to room 4"
InBossRoom ==
  UNION { TurnResults(db1, 1, "move", 4, {0}) :
            db1 \in UNION { TurnResults(db0, 1, "move", 2, {0}) :
                              db0 \in UNION { StartedRuns(c) : c \in TurnCharacters } } }

InitBoss ==
  /\ fmap = <<>>
  /\ lastOp = [name |-> "none", room |-> 0, ret |-> <<>>, before |-> <<>>, final |-> FALSE]
  /\ opCount = 0
  /\ \E db \in InBossRoom :
       /\ db.runs[1].status = "active" /\ db.runs[1].current_room = 4
       /\ player = db.player /\ inv = db.inv /\ xp = db.xp
       /\ runs = db.runs /\ floorMaps = db.maps
  /\ tasks = [t \in Tasks |-> IdleTask]
  /\ lastCall = [op |-> "init", outcome |-> "ok", task |-> 0, arg |-> 0, entryChecks |-> {}]
  /\ calls = 0
  /\ passed = {}
  /\ failures = 0

BossTurn == TurnWithin(MaxBossTurns)

NextBoss == BossTurn

SpecBoss == InitBoss /\ [][NextBoss]_vars

(***************************************************************************)
(* SpecContext: the narration context of one run of the two-floor dungeon,  *)
(* written by processAction and by handleGameMessage after the narration    *)
(***************************************************************************)
\* entries pushed in one behaviour
MaxContextEntries == 15

\* the run after /delve start: startRun, then the entry narration pushed by the
\* command (src/src/commands/equip.js:212-222)
InitContext ==
  /\ fmap = <<>>
  /\ opCount = 0
  /\ lastOp = [name |-> "start", before |-> <<>>, entry |-> [role |-> "assistant", seq |-> 0]]
  /\ player = [hp_current |-> 10, hp_max |-> 10, gold |-> 0]
  /\ inv = [picks |-> 0, antidotes |-> 0, potions |-> 0, loot |-> [r \in 1..MaxRuns |-> 0]]
  /\ xp = [lockpicking |-> 0, perception |-> 0, stealth |-> 0, melee |-> 0]
  /\ runs = << [createRun(2) EXCEPT !.ctx = <<[role |-> "assistant", seq |-> 0]>>] >>
  /\ floorMaps = <<>>
  /\ tasks = [t \in Tasks |-> IdleTask]
  /\ lastCall = [op |-> "startRun", outcome |-> "ok", task |-> 0, arg |-> 2]
  /\ calls = 0
  /\ passed = {}
  /\ failures = 0

\* processAction, lines 319-340: the turn's entry is pushed onto run.ai_context,
\* which processMove has replaced by [] if the turn changed floor
ActionEntry ==
  /\ calls < MaxContextEntries
  /\ calls' = calls + 1
  /\ \E floorTransition \in
          (IF runs[1].current_floor < Dungeons[runs[1].dungeon].floor_count
           THEN BOOLEAN ELSE {FALSE}) :
       LET aiContext == IF floorTransition THEN <<>> ELSE runs[1].ctx
           entry == [role |-> "user", seq |-> calls + 1]
       IN  /\ runs' = [runs EXCEPT ![1].ctx = pushContext(aiContext, entry),
                                   ![1].current_floor = IF floorTransition THEN @ + 1 ELSE @]
           /\ lastOp' = [name |-> "processAction", before |-> aiContext, entry |-> entry]
  /\ UNCHANGED <<fmap, opCount, player, inv, xp, floorMaps, tasks, lastCall, passed, failures>>

\* handleGameMessage, lines 1027-1040: after the narration of a turn its entry
\* is stored; skipped when the narration failed
NarrationEntry ==
  /\ calls < MaxContextEntries
  /\ lastOp.name = "processAction"
  /\ calls' = calls + 1
  /\ LET entry == [role |-> "assistant", seq |-> calls + 1]
     IN  /\ runs' = [runs EXCEPT ![1].ctx = storeNarration(@, entry)]
         /\ lastOp' = [name |-> "narration", before |-> runs[1].ctx, entry |-> entry]
  /\ UNCHANGED <<fmap, opCount, player, inv, xp, floorMaps, tasks, lastCall, passed, failures>>

NextContext == ActionEntry \/ NarrationEntry

SpecContext == InitContext /\ [][NextContext]_vars

\* C28: after every push by processAction or by the narration store the stored
\* context has at most 12 entries; it is the end of the context before the push
\* followed by the new entry, so what was dropped is the oldest and the newest
\* entry is last
C28_ContextWindowBounded ==
  lastOp.name \in {"processAction", "narration"} =>
    LET ctx == runs[1].ctx
        all == Append(lastOp.before, lastOp.entry)
    IN  /\ Len(ctx) <= 12
        /\ Len(ctx) = Min2(12, Len(all))
        /\ ctx[Len(ctx)] = lastOp.entry
        /\ \A i \in 1..Len(ctx) : ctx[i] = all[Len(all) - Len(ctx) + i]

\* a push onto a full window: the oldest entry went, the new one is last
C28_Witness ==
  /\ lastOp.name \in {"processAction", "narration"}
  /\ Len(lastOp.before) = 12
  /\ Len(runs[1].ctx) = 12
  /\ runs[1].ctx[12] = lastOp.entry
  /\ runs[1].ctx[1] = lastOp.before[2]

(***************************************************************************)
(* Claims about whole turns (SpecTurn)                                      *)
(***************************************************************************)
\* a step of SpecTurn in which processAction ran with that intent
TurnOf(intent) == calls' = calls + 1 /\ lastCall'.T.intent = intent

\* the lock a lockpicking attempt of the turn just taken worked on
TurnLock == lockpickTarget(lastCall'.T.fm, getCurrentRoom(lastCall'.T.fm, lastCall'.T.cur_room),
                           "lockpicking", 10)

\* whether the lock tgt of the current floor is open in floor map fm
LockOpen(fm, roomNumber, tgt) ==
  IF tgt.kind = "chest" THEN ~fm[getCurrentRoom(fm, roomNumber)].chest.is_locked
  ELSE fm[getCurrentRoom(fm, tgt.roomNumber)].is_accessible

\* C21: a lockpicking attempt on a locked room or chest removes exactly one
\* Thieves' Pick and rolls one lockpicking check, and the lock is open afterwards
\* exactly when it was open before or the check passed; without a pick no check
\* is rolled, the inventory and the skill xp are unchanged and the lock is as before
C21_LockpickConsumesOnePick ==
  [][ (TurnOf("skill_check:lockpicking") /\ TurnLock.kind # "none") =>
        LET r == lastCall'.arg
            room == lastCall'.T.cur_room
            before == floorMaps[r][runs[r].current_floor]
            after == floorMaps'[r][runs[r].current_floor]
            check == skillCheck("lockpicking", TurnLock.dc, BaseStat, 1, 20, <<>>, FALSE, FALSE,
                                lastCall'.roll, lastCall'.roll)
        IN  IF inv.picks = 0
            THEN /\ lastCall'.L.checks = <<>>
                 /\ inv' = inv /\ xp' = xp
                 /\ LockOpen(after, room, TurnLock) = LockOpen(before, room, TurnLock)
            ELSE /\ inv'.picks = inv.picks - 1
                 /\ lastCall'.L.checks = <<"lockpicking">>
                 /\ LockOpen(after, room, TurnLock)
                      = (LockOpen(before, room, TurnLock) \/ check.passed) ]_vars

\* a locked chest was picked open with the character's one pick
C21_Witness ==
  /\ lastCall.op = "processAction" /\ lastCall.T.intent = "skill_check:lockpicking"
  /\ lastCall.L.checks = <<"lockpicking">>
  /\ inv.picks = 0
  /\ LET fm == lastCall.T.fm
         cur == getCurrentRoom(fm, lastCall.T.cur_room)
     IN  /\ fm[cur].chest.present /\ fm[cur].chest.is_locked
         /\ ~floorMaps[1][1][cur].chest.is_locked

\* the stealth check of the flee just attempted (DC 12)
FleeCheck == skillCheck("stealth", 12, BaseStat, 1, 20, <<>>, FALSE, FALSE,
                        lastCall'.roll, lastCall'.roll)

\* round(damage * m), m given in quarters: the integer nearest to the product,
\* a half rounded up
RoundedQuarters(damage, quarters) ==
  CHOOSE n \in 0..damage : 4 * n - 2 <= damage * quarters /\ damage * quarters < 4 * n + 2

\* the opportunity hits the claim names: one per living enemy
RECURSIVE ExpectedFleeHits(_, _)
ExpectedFleeHits(enemies, outcome) ==
  IF enemies = <<>> THEN 0
  ELSE LET e == enemies[Len(enemies)]
           quarters == IF outcome = "critical_success" THEN 0
                       ELSE IF outcome = "success" THEN 1 ELSE 2
       IN  (IF e.is_dead THEN 0 ELSE RoundedQuarters(e.damage, quarters))
           + ExpectedFleeHits(SubSeq(enemies, 1, Len(enemies) - 1), outcome)

\* C22: a flee whose check passes clears is_combat_active, takes from the
\* player the sum of round(damage * m) over the living enemies (m = 0, 0.25,
\* 0.5 for critical_success, success, partial) and nothing for the dead ones,
\* and leaves the enemies and the player's room as they were
C22_FleePassOpportunityHits ==
  [][ (TurnOf("flee") /\ FleeCheck.passed) =>
        LET r == lastCall'.arg
            enemies == runs[r].room_state.enemies
        IN  /\ ~runs'[r].room_state.is_combat_active
            /\ lastCall'.L.hpChange
                 = 0 - lastCall'.L.poisonTick - ExpectedFleeHits(enemies, FleeCheck.outcome)
            /\ lastCall'.L.enemyTurns = <<>>
            /\ runs'[r].room_state.enemies = enemies
            /\ runs'[r].current_room = runs[r].current_room
            /\ runs'[r].current_floor = runs[r].current_floor
            /\ (~lastCall'.L.runDied =>
                  player'.hp_current = player.hp_current + lastCall'.L.hpChange) ]_vars

\* a flee passed with outcome success in a room with a dead and a living enemy
\* and cost the player the living enemy's hit only
C22_Witness ==
  /\ lastCall.op = "processAction" /\ lastCall.T.intent = "flee"
  /\ lastCall.L.fleeSuccess /\ lastCall.roll = 15
  /\ LET enemies == runs[1].room_state.enemies
     IN  /\ \E k \in 1..Len(enemies) : enemies[k].is_dead
         /\ \E k \in 1..Len(enemies) : ~enemies[k].is_dead
  /\ lastCall.L.hpChange = 0 - lastCall.L.poisonTick - 1
  /\ ~runs[1].room_state.is_combat_active

\* C23: when the check of a flee fails, combat is still active after the turn
\* and every living enemy has taken its turn within that turn
C23_FailedFleeEnemiesAct ==
  [][ (TurnOf("flee") /\ ~FleeCheck.passed) =>
        LET r == lastCall'.arg
        IN  /\ runs'[r].room_state.is_combat_active
            /\ lastCall'.L.enemyTurns = livingEnemies(runs[r].room_state.enemies) ]_vars

\* the turn before was a flee that succeeded, the run goes on, and the room
\* state still holds a living enemy
FledWithEnemiesAlive ==
  /\ lastCall.op = "processAction" /\ lastCall.T.intent = "flee" /\ lastCall.L.fleeSuccess
  /\ runs[lastCall.arg].status = "active"
  /\ livingEnemies(runs[lastCall.arg].room_state.enemies) # <<>>

\* C24: after a successful flee, with living enemies in the room, a turn whose
\* text has an attack word is an attack: combat is active again when the handler
\* returns and one melee check against a living enemy has been rolled
C24_AttackAfterFleeReengages ==
  [][ (FledWithEnemiesAlive /\ calls' = calls + 1 /\ lastCall'.text \in AttackTexts) =>
        /\ lastCall'.L.intent = "attack"
        /\ lastCall'.L.checks = <<"melee">>
        /\ lastCall'.T.target \in SeqToSet(livingEnemies(runs[lastCall.arg].room_state.enemies))
        /\ (lastCall'.H.rs.is_combat_active \/ allDead(lastCall'.H.rs.enemies)) ]_vars

\* C25: a turn marks a room cleared only if it is the room the player was in
\* and no enemy of the room state was alive; a move out of a room with a living
\* enemy (after a flee, say) leaves every room's is_cleared and is_accessible
\* as it was
C25_NoClearWithLivingEnemy ==
  [][ calls' = calls + 1 =>
        LET r == lastCall'.arg
            before == floorMaps[r][runs[r].current_floor]
            after == floorMaps'[r][runs[r].current_floor]
            alive == livingEnemies(runs[r].room_state.enemies) # <<>>
        IN  /\ \A k \in 1..Len(before) :
                 (after[k].is_cleared /\ ~before[k].is_cleared) =>
                   (before[k].room_number = runs[r].current_room /\ ~alive)
            /\ (alive /\ lastCall'.T.intent = "move") =>
                 \A k \in 1..Len(before) :
                   /\ after[k].is_cleared = before[k].is_cleared
                   /\ after[k].is_accessible = before[k].is_accessible ]_vars

\* the per-tick damage of all effects of a list
RECURSIVE SumPerTick(_)
SumPerTick(effects) ==
  IF effects = <<>> THEN 0
  ELSE SumPerTick(SubSeq(effects, 1, Len(effects) - 1)) + effects[Len(effects)].damage_per_tick

\* every effect stored before the turn was ticked exactly once before the
\* handler was called: its damage is in hpChange, its duration is one less, and
\* it is gone from the list if that made the duration zero
TickedOnceBeforeHandler ==
  LET stored == runs[lastCall'.arg].run_stats.status_effects
      T == lastCall'.T
  IN  /\ T.poisonTick = SumPerTick(stored)
      /\ T.hpChange = 0 - T.poisonTick
      /\ \A i \in 1..Len(stored) :
           stored[i].duration > 1 =>
             \E j \in 1..Len(T.stats.status_effects) :
               T.stats.status_effects[j] = [stored[i] EXCEPT !.duration = @ - 1]
      /\ \A j \in 1..Len(T.stats.status_effects) :
           /\ T.stats.status_effects[j].duration > 0
           /\ \E i \in 1..Len(stored) :
                T.stats.status_effects[j] = [stored[i] EXCEPT !.duration = @ - 1]

\* the sources whose poison was applied in the enemy phase of the turn
AppliedSources ==
  { lastCall'.L.statusEffectsApplied[k].source : k \in 1..Len(lastCall'.L.statusEffectsApplied) }

\* the stored effect of a source after the turn, as a set (empty: absent)
StoredAfter(source) ==
  LET after == runs'[lastCall'.arg].run_stats.status_effects
  IN  { after[j] : j \in { k \in 1..Len(after) : after[k].source = source } }

\* C26 as stated: every turn ticks every stored effect exactly once before the
\* handler; a poison stored with n actions left is stored with n - 1 after the
\* turn if n > 1 and is absent if n = 1, and a poison not stored before is
\* stored with the duration d it was applied with - so that it deals damage on
\* exactly d turns
C26_PoisonLastsExactlyD ==
  [][ calls' = calls + 1 =>
        LET stored == runs[lastCall'.arg].run_stats.status_effects
            after == runs'[lastCall'.arg].run_stats.status_effects
        IN  /\ TickedOnceBeforeHandler
            /\ \A i \in 1..Len(stored) :
                 IF stored[i].duration > 1
                 THEN StoredAfter(stored[i].source) = { [stored[i] EXCEPT !.duration = @ - 1] }
                 ELSE StoredAfter(stored[i].source) = {}
            /\ \A j \in 1..Len(after) :
                 (\A i \in 1..Len(stored) : stored[i].source # after[j].source) =>
                   /\ after[j].source \in AppliedSources
                   /\ after[j].duration = 2 ]_vars

\* C26 with the two cases the code provides for: every turn ticks every stored
\* effect exactly once before the handler; after the turn a poison whose source
\* poisoned the player again in the turn is stored with the full duration d,
\* and otherwise it is absent if an Antidote was used or it had one action
\* left, and is stored with one action less if not
C26_PoisonLastsUnlessCuredOrRenewed ==
  [][ calls' = calls + 1 =>
        LET stored == runs[lastCall'.arg].run_stats.status_effects
            after == runs'[lastCall'.arg].run_stats.status_effects
            cured == lastCall'.L.itemUsed
        IN  /\ TickedOnceBeforeHandler
            /\ \A i \in 1..Len(stored) :
                 IF stored[i].source \in AppliedSources
                 THEN StoredAfter(stored[i].source) = { [stored[i] EXCEPT !.duration = 2] }
                 ELSE IF cured \/ stored[i].duration = 1
                 THEN StoredAfter(stored[i].source) = {}
                 ELSE StoredAfter(stored[i].source) = { [stored[i] EXCEPT !.duration = @ - 1] }
            /\ \A j \in 1..Len(after) :
                 (\A i \in 1..Len(stored) : stored[i].source # after[j].source) =>
                   /\ after[j].source \in AppliedSources
                   /\ after[j].duration = 2 ]_vars

\* a poison with one action left dealt its damage and is gone from the stored
\* list, no Antidote having been used
C26_Witness ==
  /\ lastCall.op = "processAction"
  /\ lastCall.T.poisonTick = 2
  /\ lastCall.T.stats.status_effects = <<>>
  /\ ~lastCall.L.itemUsed
  /\ runs[1].run_stats.status_effects = <<>>
  /\ player.hp_current < player.hp_max

\* C27: a move into a room with a trap rolls the perception check if and only
\* if no earlier entry into that room rolled it; the first entry leaves the trap
\* either detected without damage or triggered with its damage
C27_TrapCheckedOncePerRun ==
  [][ (TurnOf("move") /\ runs'[lastCall'.arg].current_room # runs[lastCall'.arg].current_room) =>
        LET r == lastCall'.arg
            t == runs'[r].current_room
            before == floorMaps[r][runs[r].current_floor]
            after == floorMaps'[r][runs[r].current_floor]
            k == getCurrentRoom(before, t)
        IN  before[k].trap.present =>
              IF t \in lastCall.entryChecks
              THEN lastCall'.L.checks = <<>> /\ after[k].trap = before[k].trap
              ELSE /\ lastCall'.L.checks = <<"perception">>
                   /\ \/ /\ ~after[k].trap.is_triggered
                         /\ lastCall'.H.hpChange = lastCall'.T.hpChange
                      \/ /\ after[k].trap.is_triggered
                         /\ lastCall'.H.hpChange = lastCall'.T.hpChange - before[k].trap.damage ]_vars

\* a boss of the current room is dead in the room state the turn stores
BossDeadAtEnd(L) == \E k \in 1..Len(L.rs.enemies) : L.rs.enemies[k].is_boss = 1 /\ L.rs.enemies[k].is_dead

\* C29: a turn that ends with a dead boss in the current room, in a dungeon
\* completed by boss_killed, stores the run as completed, adds the completion
\* bonus 50 + 25 * difficulty tier to the gold the player had plus the gold of
\* the action, and stores hp_current = hp_max; the run takes no further turn,
\* so the bonus is paid once
C29_BossKillCompletesRun ==
  [][ (calls' = calls + 1 /\ BossDeadAtEnd(lastCall'.L)
         /\ Dungeons[runs[lastCall'.arg].dungeon].completion = "boss_killed") =>
        LET r == lastCall'.arg
            dungeon == Dungeons[runs[r].dungeon]
        IN  /\ runs'[r].status = "completed"
            /\ player'.gold = player.gold + lastCall'.H.goldGained + 50 + 25 * dungeon.difficulty_tier
            /\ player'.hp_current = player'.hp_max
            /\ getActiveRun(runs') = {} ]_vars

\* how often enemy k occurs in result.enemyTurns
TurnsOf(turns, k) == Cardinality({ i \in 1..Len(turns) : turns[i] = k })

\* C30: in a turn that is not a flee, with combat active after the player's
\* action, the player not dead and no boss room entered, every enemy that is
\* alive after the action takes exactly one turn and no dead enemy takes one;
\* in the turn that enters the boss room no enemy takes a turn and the player
\* loses nothing after the move
C30_LivingEnemiesActOnce ==
  [][ calls' = calls + 1 =>
        LET H == lastCall'.H
            L == lastCall'.L
            living == { k \in 1..Len(H.rs.enemies) : ~H.rs.enemies[k].is_dead }
        IN  /\ (H.intent # "flee" /\ H.rs.is_combat_active /\ ~H.playerDied /\ ~H.bossRoomEntered) =>
                 \A k \in 1..Len(H.rs.enemies) :
                    TurnsOf(L.enemyTurns, k) = (IF k \in living THEN 1 ELSE 0)
            /\ H.bossRoomEntered =>
                 /\ L.enemyTurns = <<>>
                 /\ L.hpChange = H.hpChange
                 /\ L.statusEffectsApplied = <<>> ]_vars

\* in the boss room, entered a turn earlier, the add is dead and the boss alone
\* takes a turn
C30_Witness ==
  /\ lastCall.op = "processAction"
  /\ lastCall.H.intent = "attack"
  /\ ~lastCall.H.bossRoomEntered
  /\ Len(lastCall.H.rs.enemies) = 2
  /\ ~lastCall.H.rs.enemies[1].is_dead
  /\ lastCall.H.rs.enemies[2].is_dead
  /\ lastCall.L.enemyTurns = <<1>>

(***************************************************************************)
(* SpecEnemyTurn: processEnemyTurn (src/src/engine/combat.js) applied to    *)
(* enumerated enemies, abilities, armour and random draws                   *)
(***************************************************************************)
\* Math.round of a non-negative ratio num / den
RoundDiv(num, den) == (2 * num + den) \div (2 * den)

\* dice.js rollDamage: baseDamage in tenths, variance and the resistance
\* multiplier in hundredths (variance = 0.8 + Math.random() * 0.4)
rollDamage(baseDamageTenths, weaponBonus, isCritical, targetArmor, resistanceHundredths, varianceHundredths) ==
  LET rawDamage == RoundDiv((baseDamageTenths + 10 * weaponBonus) * varianceHundredths, 1000)
      raw2 == IF isCritical THEN rawDamage * 2 ELSE rawDamage
      afterResistance == RoundDiv(raw2 * resistanceHundredths, 100)
  IN  [rawDamage |-> raw2, mitigatedDamage |-> Max2(1, afterResistance - targetArmor)]

\* abilities of the seeded enemies; damage_multiplier in tenths, 0 where the
\* ability has none, effect_value as in EnemyRules
SeededAbilities ==
  { [name |-> "Rusty Slash", check_type |-> "melee", base_dc |-> 10, damage_multiplier |-> 10,
     effect_chance |-> FALSE, effect |-> NoEffect],
    [name |-> "Bone Throw", check_type |-> "ranged", base_dc |-> 12, damage_multiplier |-> 6,
     effect_chance |-> FALSE, effect |-> NoEffect],
    [name |-> "Venomous Bite", check_type |-> "melee", base_dc |-> 11, damage_multiplier |-> 8,
     effect_chance |-> TRUE,
     effect |-> [present |-> TRUE, status |-> "poison", duration_actions |-> 5]],
    [name |-> "Warden's Cleave", check_type |-> "melee", base_dc |-> 14, damage_multiplier |-> 15,
     effect_chance |-> FALSE, effect |-> NoEffect],
    [name |-> "Web Spit", check_type |-> "ranged", base_dc |-> 13, damage_multiplier |-> 0,
     effect_chance |-> TRUE,
     effect |-> [present |-> TRUE, status |-> "stun", duration_actions |-> 1]] }

\* the partial branch with the ability's multiplier applied
partialBaseDamageOfAbility(enemy, ability) ==
  enemy.damage * (IF ability.damage_multiplier = 0 THEN 10 ELSE ability.damage_multiplier)

\* processEnemyTurn, line 67: baseDamage of the partial branch, in tenths
partialBaseDamage(enemy, ability) == enemy.damage * 10

\* processEnemyTurn(enemy, player, baseStats, equippedItems) for the ability
\* pickEnemyAbility returned, the d20 of the dodge check, the variance drawn by
\* rollDamage and, for drawn, Math.random() < ability.effect_chance
processEnemyTurn(enemy, ability, playerArmor, baseRoll, variance, drawn) ==
  LET skillName == IF ability.check_type = "melee" THEN "melee"
                   ELSE IF ability.check_type = "ranged" THEN "ranged" ELSE "survival"
      dodgeCheck == skillCheck(skillName, IF ability.base_dc = 0 THEN 12 ELSE ability.base_dc,
                               BaseStat, 0, 20, <<>>, FALSE, FALSE, baseRoll, baseRoll)
      half == rollDamage(partialBaseDamage(enemy, ability), 0, FALSE, playerArmor, 100, variance)
      full == rollDamage(enemy.damage * (IF ability.damage_multiplier = 0 THEN 10
                                         ELSE ability.damage_multiplier),
                         0, FALSE, playerArmor, 100, variance)
  IN  IF enemy.is_dead
      THEN [action |-> "skip", dodge_check |-> <<>>, damage |-> 0, effects |-> <<>>]
      ELSE IF dodgeCheck.passed /\ ~dodgeCheck.is_fumble
      THEN [action |-> ability.name, dodge_check |-> dodgeCheck,
            damage |-> IF dodgeCheck.outcome = "partial" THEN half.mitigatedDamage \div 2 ELSE 0,
            effects |-> <<>>]
      ELSE [action |-> ability.name, dodge_check |-> dodgeCheck,
            damage |-> full.mitigatedDamage,
            effects |-> IF ability.effect_chance /\ ability.effect.present /\ drawn
                        THEN << [type |-> ability.effect.status,
                                 duration |-> IF ability.effect.duration_actions = 0 THEN 3
                                              ELSE ability.effect.duration_actions,
                                 source |-> enemy.name] >>
                        ELSE <<>>]

\* enemies by scaled damage, armour of the equipped items, d20 of the dodge
\* check, variance in hundredths, the effect draw
EnemyTurnInputs ==
  [enemy : { [name |-> "Shambling Skeleton", damage |-> 7, is_dead |-> FALSE],
             [name |-> "The Hollow Warden", damage |-> 14, is_dead |-> FALSE],
             [name |-> "Crypt Rat", damage |-> 4, is_dead |-> TRUE] },
   ability : SeededAbilities,
   playerArmor : {0, 3},
   baseRoll : 1..20,
   variance : {80, 100, 119},
   drawn : BOOLEAN]

InitEnemyTurn ==
  /\ lastOp \in { [name |-> "arguments", in |-> i, ret |-> <<>>] : i \in EnemyTurnInputs }
  /\ NoRunState

ProcessEnemyTurnOp ==
  /\ lastOp.name = "arguments"
  /\ LET i == lastOp.in
     IN  lastOp' = [name |-> "processEnemyTurn", in |-> i,
                    ret |-> processEnemyTurn(i.enemy, i.ability, i.playerArmor, i.baseRoll,
                                             i.variance, i.drawn)]
  /\ UNCHANGED <<fmap, opCount>>
  /\ UNCHANGED runVars

NextEnemyTurn == ProcessEnemyTurnOp

SpecEnemyTurn == InitEnemyTurn /\ [][NextEnemyTurn]_vars

\* the damage the ability deals on a failed check at the variance drawn:
\* enemy.damage times the ability's multiplier, times the variance, rounded,
\* less the player's armour, at least 1
FailedCheckDamage(i) ==
  LET m == IF i.ability.damage_multiplier = 0 THEN 10 ELSE i.ability.damage_multiplier
      raw == (2 * i.enemy.damage * m * i.variance + 1000) \div 2000
  IN  IF raw - i.playerArmor >= 1 THEN raw - i.playerArmor ELSE 1

\* C31: in the turn of a living enemy a success or critical success of the
\* dodge check gives damage 0, a partial gives half, rounded down, of the damage
\* the ability deals on a failed check, a failure or critical failure gives that
\* damage in full; a status effect is attached only on a failed check
C31_EnemyTurnDamageByOutcome ==
  (lastOp.name = "processEnemyTurn" /\ ~lastOp.in.enemy.is_dead) =>
    LET i == lastOp.in
        outcome == lastOp.ret.dodge_check.outcome
    IN  /\ outcome \in {"success", "critical_success"} => lastOp.ret.damage = 0
        /\ outcome = "partial" => lastOp.ret.damage = FailedCheckDamage(i) \div 2
        /\ outcome \in {"failure", "critical_failure"} => lastOp.ret.damage = FailedCheckDamage(i)
        /\ lastOp.ret.effects # <<>> => outcome \in {"failure", "critical_failure"}

(***************************************************************************)
(* SpecGenerate: generateFloor applied to floor numbers 1 .. MaxFloorNumber *)
(***************************************************************************)
\* the deepest floor generated
MaxFloorNumber == 4

\* every value of roll(3), standard rooms without enemies, any branch draw
RndCount ==
  [roll3 |-> 1..3, types |-> {"standard"}, branch |-> BOOLEAN,
   enemyChance |-> {FALSE}, trapEnemyChance |-> {FALSE}, enemyCount |-> {0},
   bossAdds |-> {0}, trapIdx |-> {1}, chestChance |-> {FALSE}, chestLocked |-> {FALSE},
   restHeal |-> {20}]

InitGenerate ==
  /\ fmap = <<>>
  /\ lastOp \in { [name |-> "arguments", floorNumber |-> f, final |-> isFinalFloor] :
                  f \in 1..MaxFloorNumber, isFinalFloor \in BOOLEAN }
  /\ opCount = 0
  /\ player = [hp_current |-> 10, hp_max |-> 10, gold |-> 0]
  /\ inv = [picks |-> 0, antidotes |-> 0, potions |-> 0, loot |-> [r \in 1..MaxRuns |-> 0]]
  /\ xp = [lockpicking |-> 0, perception |-> 0, stealth |-> 0, melee |-> 0]
  /\ runs = <<>>
  /\ floorMaps = <<>>
  /\ tasks = [t \in Tasks |-> IdleTask]
  /\ lastCall = [op |-> "init", outcome |-> "ok", task |-> 0, arg |-> 0]
  /\ calls = 0
  /\ passed = {}
  /\ failures = 0

\* generateFloor({dungeon, floorNumber, isFinalFloor, enemyRules, seed})
GenerateFloorOp ==
  /\ lastOp.name = "arguments"
  /\ fmap' \in generateFloor(Dungeons[1], lastOp.floorNumber, lastOp.final, EnemyRules, RndCount)
  /\ lastOp' = [lastOp EXCEPT !.name = "generateFloor"]
  /\ UNCHANGED opCount
  /\ UNCHANGED runVars

NextGenerate == GenerateFloorOp

SpecGenerate == InitGenerate /\ [][NextGenerate]_vars

MaxMoveTurns == 4

\* five rooms, standard or locked, a branch or none at every room, no enemies
RndMove ==
  [roll3 |-> {2}, types |-> {"standard", "locked"}, branch |-> BOOLEAN,
   enemyChance |-> {FALSE}, trapEnemyChance |-> {FALSE}, enemyCount |-> {0},
   bossAdds |-> {0}, trapIdx |-> {1}, chestChance |-> {FALSE}, chestLocked |-> {FALSE},
   restHeal |-> {20}]

MoveTexts == {"move", "lockpick"}

\* the state startRun(playerId, 1) leaves
InitMove ==
  /\ fmap = <<>>
  /\ lastOp = [name |-> "none", room |-> 0, ret |-> <<>>, before |-> <<>>, final |-> FALSE]
  /\ opCount = 0
  /\ player = [hp_current |-> 10, hp_max |-> 10, gold |-> 15]
  /\ inv = [picks |-> 1, antidotes |-> 0, potions |-> 0, loot |-> [r \in 1..MaxRuns |-> 0]]
  /\ xp = [lockpicking |-> 0, perception |-> 0, stealth |-> 0, melee |-> 0]
  /\ \E floorMap \in generateFloor(Dungeons[1], 1, TRUE, TurnEnemyRules, RndMove) :
       /\ runs = << [createRun(1) EXCEPT
                       !.room_state = buildRoomState(floorMap[getCurrentRoom(floorMap, 1)])] >>
       /\ floorMaps = << <<floorMap>> >>
  /\ tasks = [t \in Tasks |-> IdleTask]
  /\ lastCall = [op |-> "startRun", outcome |-> "ok", task |-> 0, arg |-> 1,
                 entryChecks |-> {}]
  /\ calls = 0
  /\ passed = {}
  /\ failures = 0

\* the d20 values of a lockpicking check: a failure and a success
MoveDice == {6, 15}

MoveTurn == TurnOn(MaxMoveTurns, MoveTexts, MoveDice)

NextMove == MoveTurn

SpecMove == InitMove /\ [][NextMove]_vars

\* the rooms connected to room number cur in floorMap that are accessible
AccessibleConnections(floorMap, cur) ==
  { c \in SeqToSet(floorMap[getCurrentRoom(floorMap, cur)].connections) :
      /\ getCurrentRoom(floorMap, c) # 0
      /\ floorMap[getCurrentRoom(floorMap, c)].is_accessible }

\* those of them not yet cleared
UnclearedConnections(floorMap, cur) ==
  { c \in AccessibleConnections(floorMap, cur) : ~floorMap[getCurrentRoom(floorMap, c)].is_cleared }

\* C32: a move turn without a room number, judged on the floor map the turn
\* stores: if a connected room is accessible and not cleared the player is in
\* such a room afterwards; if none is but some connected room is accessible the
\* player is in the highest-numbered accessible connected room; the move is
\* blocked only if no connected room is accessible
C32_AutoMoveTarget ==
  [][ (TurnOf("move") /\ lastCall'.targetRoom = 0) =>
        LET r == lastCall'.arg
            cur == runs[r].current_room
            after == floorMaps'[r][runs[r].current_floor]
            A == AccessibleConnections(after, cur)
            U == UnclearedConnections(after, cur)
        IN  /\ U # {} => runs'[r].current_room \in U
            /\ (U = {} /\ A # {}) =>
                 /\ runs'[r].current_room \in A
                 /\ \A c \in A : c <= runs'[r].current_room
            /\ A # {} => ~lastCall'.L.moveBlocked ]_vars

\* a move without a room number from a room whose accessible connections, two
\* or more, are all cleared: the player went to the highest of them
C32_Witness ==
  /\ lastCall.op = "processAction"
  /\ lastCall.T.intent = "move"
  /\ lastCall.targetRoom = 0
  /\ LET floorMap == floorMaps[1][1]
         from == lastCall.T.cur_room
     IN  /\ from # runs[1].current_room
         /\ Cardinality(AccessibleConnections(floorMap, from)) >= 2
         /\ \A c \in AccessibleConnections(floorMap, from) :
              c # runs[1].current_room => floorMap[getCurrentRoom(floorMap, c)].is_cleared
         /\ floorMap[getCurrentRoom(floorMap, runs[1].current_room)].is_cleared
         /\ \A c \in AccessibleConnections(floorMap, from) : c <= runs[1].current_room

\* C37: a move turn that changes the player's room on the floor takes the
\* player to a room listed in the connections of the room the player was in
C37_MoveAlongConnection ==
  [][ (TurnOf("move") /\ runs'[lastCall'.arg].current_floor = runs[lastCall'.arg].current_floor
         /\ runs'[lastCall'.arg].current_room # runs[lastCall'.arg].current_room) =>
        LET r == lastCall'.arg
            floorMap == floorMaps[r][runs[r].current_floor]
            from == floorMap[getCurrentRoom(floorMap, runs[r].current_room)]
        IN  runs'[r].current_room \in SeqToSet(from.connections) ]_vars

\* C38: a move turn that is blocked because its target room is not accessible
\* leaves the stored floor map, the count of rooms cleared and the player's
\* position as they were
C38_BlockedMoveChangesNothing ==
  [][ (TurnOf("move") /\ lastCall'.L.moveBlocked) =>
        LET r == lastCall'.arg
        IN  /\ floorMaps'[r] = floorMaps[r]
            /\ runs'[r].run_stats.rooms_cleared = runs[r].run_stats.rooms_cleared
            /\ runs'[r].current_room = runs[r].current_room
            /\ runs'[r].current_floor = runs[r].current_floor ]_vars

\* the trap of the room the handler of the turn acted in or moved into has
\* been triggered, disarmed or detected by an entry check before the turn
TrapAlreadyMet(r, roomNumber) ==
  LET floorMap == floorMaps[r][runs[r].current_floor]
      trap == floorMap[getCurrentRoom(floorMap, roomNumber)].trap
  IN  /\ trap.present
      /\ trap.is_triggered \/ trap.is_disarmed \/ roomNumber \in lastCall.entryChecks

\* C39: a move or skill check whose room holds a trap already triggered or
\* detected takes no HP from the player in its handler, so the trap's damage is
\* not applied a second time
C39_TrapDamageAtMostOnce ==
  [][ (calls' = calls + 1
         /\ lastCall'.T.intent \in {"move", "skill_check:lockpicking", "skill_check:stealth"}
         /\ lastCall'.H.cur_floor = runs[lastCall'.arg].current_floor
         /\ TrapAlreadyMet(lastCall'.arg, lastCall'.H.cur_room)) =>
        lastCall'.H.hpChange = lastCall'.T.hpChange ]_vars


\* C34: no turn ends both dead and completed: a turn in which the player dies
\* does not set result.runComplete and pays no completion bonus (the stored
\* gold does not exceed the gold before plus the gold of the action), and a
\* turn that completes the run takes no death penalty from the gold
C34_NeverDeadAndCompleted ==
  [][ calls' = calls + 1 =>
        /\ ~(lastCall'.L.runDied /\ lastCall'.L.runComplete)
        /\ lastCall'.L.runDied => player'.gold <= player.gold + lastCall'.H.goldGained
        /\ lastCall'.L.runComplete => player'.gold >= player.gold + lastCall'.H.goldGained ]_vars


(***************************************************************************)
(* SpecReenter: whole turns of a run whose player has killed the enemy of   *)
(* room 2 and stands in that room                                           *)
(***************************************************************************)
\* turns taken after the kill in one behaviour
MaxReenterTurns == 2

\* the databases after the turns "move to room 2", "attack" with the enemy of
\* room 2 killed and the player alive in room 2
AfterKill ==
  { db2 \in UNION { TurnResults(db1, 1, "attack", 0, TurnDice) :
                      db1 \in UNION { TurnResults(db0, 1, "move", 2, {0}) :
                                        db0 \in UNION { StartedRuns(c) : c \in TurnCharacters } } } :
      /\ db2.runs[1].status = "active"
      /\ db2.runs[1].current_room = 2
      /\ db2.runs[1].room_state.enemies # <<>>
      /\ allDead(db2.runs[1].room_state.enemies) }

InitReenter ==
  /\ fmap = <<>>
  /\ lastOp = [name |-> "none", room |-> 0, ret |-> <<>>, before |-> <<>>, final |-> FALSE]
  /\ opCount = 0
  /\ \E db \in AfterKill :
       /\ player = db.player /\ inv = db.inv /\ xp = db.xp
       /\ runs = db.runs /\ floorMaps = db.maps
  /\ tasks = [t \in Tasks |-> IdleTask]
  /\ lastCall = [op |-> "init", outcome |-> "ok", task |-> 0, arg |-> 0, entryChecks |-> {}]
  /\ calls = 0
  /\ passed = {}
  /\ failures = 0

ReenterTexts == {"move", "attack"}

ReenterTurn == TurnOn(MaxReenterTurns, ReenterTexts, TurnDice)

NextReenter == ReenterTurn

SpecReenter == InitReenter /\ [][NextReenter]_vars

\* C35: a move into room 2, whose enemy has been killed, builds a room state in
\* which every enemy is dead with 0 HP and combat is not active
C35_KilledEnemyStaysDead ==
  [][ (calls' = calls + 1 /\ lastCall'.T.intent = "move"
         /\ lastCall'.T.cur_room # 2 /\ lastCall'.H.cur_room = 2) =>
        /\ allDead(lastCall'.H.rs.enemies)
        /\ \A k \in 1..Len(lastCall'.H.rs.enemies) : lastCall'.H.rs.enemies[k].hp_current = 0
        /\ ~lastCall'.H.rs.is_combat_active ]_vars


(***************************************************************************)
(* SpecPotion: whole turns of a run in the boss room whose player carries   *)
(* a Health Potion                                                          *)
(***************************************************************************)
\* turns taken in the boss room in one behaviour
MaxPotionTurns == 2

\* the characters of SpecPotion: hp_current is what the last run left
PotionCharacters ==
  { [hp_current |-> h, hp_max |-> 10, gold |-> 15, picks |-> 0, antidotes |-> 0] :
      h \in {7, 9, 10} }

\* the databases after the turns "move to room 2", "move to room 4" of a run
\* started with one Health Potion
WithPotionInBossRoom ==
  UNION { TurnResults(db1, 1, "move", 4, {0}) :
            db1 \in UNION { TurnResults([db0 EXCEPT !.inv.potions = 1], 1, "move", 2, {0}) :
                              db0 \in UNION { StartedRuns(c) : c \in PotionCharacters } } }

InitPotion ==
  /\ fmap = <<>>
  /\ lastOp = [name |-> "none", room |-> 0, ret |-> <<>>, before |-> <<>>, final |-> FALSE]
  /\ opCount = 0
  /\ \E db \in WithPotionInBossRoom :
       /\ db.runs[1].status = "active" /\ db.runs[1].current_room = 4
       /\ player = db.player /\ inv = db.inv /\ xp = db.xp
       /\ runs = db.runs /\ floorMaps = db.maps
  /\ tasks = [t \in Tasks |-> IdleTask]
  /\ lastCall = [op |-> "init", outcome |-> "ok", task |-> 0, arg |-> 0, entryChecks |-> {}]
  /\ calls = 0
  /\ passed = {}
  /\ failures = 0

PotionTexts == {"attack", "use potion"}

\* processAction(playerId, actionText) from call to return, the Health Potion
\* rolling one of PotionHeals
PotionStep(r, text, T) ==
  \E baseRoll \in (IF T.intent \in AwaitedIntents THEN TurnDice ELSE {0}),
     heal \in (IF T.intent = "use_item" THEN PotionHeals ELSE {0}) :
    \E H \in { turnHandledWith(Db, r, T, 0, baseRoll, heal) } :
      \E rolls \in DodgeRolls(H.L.rs) :
        \E X \in { turnEnd(H, rolls) } :
          /\ SetDb(X.db)
          /\ lastCall' = TurnRecord(r, text, 0, baseRoll, T, H.L, X.L)

PotionTurn ==
  /\ calls < MaxPotionTurns
  /\ calls' = calls + 1
  /\ UNCHANGED <<floorVars, tasks, passed, failures>>
  /\ \E r \in getActiveRun(runs) :
       /\ ~runNotActive(runs[r])
       /\ \E text \in PotionTexts : PotionStep(r, text, turnLocals(Db, r, text))

NextPotion == PotionTurn

SpecPotion == InitPotion /\ [][NextPotion]_vars

\* C36: while a run is active the stored hp_current of its player is at least 1
C36_ActiveRunKeepsHp ==
  \A r \in 1..Len(runs) : runs[r].status = "active" => player.hp_current >= 1


\* C40: a run that abandonRun has set to abandoned while one of its turns is
\* suspended at an await stays abandoned at every later step, whether the turn
\* returns or throws
C40_AbandonedStaysAbandoned ==
  [][ \A r \in 1..Len(runs) :
        (runs[r].status = "abandoned"
           /\ \E t \in Tasks : tasks[t].pc # "idle" /\ tasks[t].L.run = r) =>
          runs'[r].status = "abandoned" ]_vars

=============================================================================
